---- MODULE Spec2Model ----
(***************************************************************************)
(* Model of the mudae-autobot decision engine (src/src/handler.rs), the    *)
(* roll scheduler (src/src/commands.rs) and the lookup coordinator         *)
(* (handle_search_request and the CharacterInfo / Unknown arms of          *)
(* handle_mudae_message).                                                  *)
(*                                                                         *)
(* Three tokio tasks share state: the inbound-event consumer               *)
(* (run_event_loop), the RollScheduler and the dashboard (tui.rs).  Every  *)
(* action below is one stretch of code between two suspension points of    *)
(* one task.  Time is kept relative: Tick moves every running sleep and    *)
(* every cooldown age forward by one second.                               *)
(***************************************************************************)
EXTENDS Integers, Sequences, FiniteSets, TLC

(***************************************************************************)
(* Bounds and program constants                                            *)
(***************************************************************************)
\* largest count carried by a RollsRemaining message
MaxCount == 1
\* config.roll_cooldown_seconds, the configured cooldown of a roll command,
\* in seconds: the model runs with a short cooldown
roll_cooldown_seconds == 2

\* stats.set_rolls_remaining(10) at startup
InitialRolls == 10
\* sleep of a cycle that finds automation disabled or paused
PausedSleep == 5
\* sleep of a cycle that finds no rolls remaining
NoRollsSleep == 10
\* sleep after a failed send
SendFailSleep == 1
\* sleep after a roll
RollDelay == 1

\* Config::default roll_commands
roll_commands == <<"$wa", "$ha">>
\* target channels of the scheduler and the handler
channels == <<1, 2>>

\* "no entry" of the cooldown HashMap, None of an Option
Absent == -1

VARIABLES
    \* ---- configuration (Config), fixed after construction
    auto_roll,              \* config.auto_roll
    wishlist_enabled,       \* config.wishlist_enabled
    \* ---- shared state
    paused,                 \* Stats.paused
    claim_available,        \* CommandExecutor.claim_available
    rolls_remaining,        \* Stats.rolls_remaining
    roll_cooldowns,         \* CommandExecutor.roll_cooldowns: command -> seconds since last use, or Absent
    \* ---- RollScheduler::run
    s_pc,                   \* "top" | "pick" | "send" | "mark"
    s_ch,                   \* index into channels of the for loop
    s_current_rolls,        \* local current_rolls
    s_sleep,                \* seconds left of the running tokio::time::sleep
    \* ---- MessageHandler (run_event_loop), one event at a time
    h_pc,                   \* "idle" | "decrement" | "decide" | "claim" | "fallback"
    h_msg,                  \* the classified event being (or last) handled
    h_current_rolls,        \* local current_rolls of handle_character_roll
    calls,                  \* outbound calls made for h_msg, in order
    outcome,                \* "none" | "skipped" | "claimed" | "failed"
    budget_seen,            \* count of the last RollsRemaining event while nothing has consumed a roll since, else Absent
    cooldown_seen           \* "none" | "available" | "unavailable": the last ClaimAvailable event

VARIABLES
    \* ---- lookup coordinator (handler.rs pending_search, search.rs, tui.rs)
    pending_search,         \* MessageHandler.pending_search: (channel, response_tx) or NoPending
    response,               \* per request: what its oneshot channel carries
    timer,                  \* per request: seconds left of the timeout task spawned for it
    search_rx,              \* the mpsc channel from the dashboard to the handler
    next_req,               \* the next request the dashboard will create
    searching,              \* Tui.searching
    tui_pending,            \* Tui.pending_search: the request whose receiver the dashboard holds, or 0
    l_req,                  \* the request handle_search_request is handling
    l_event,                \* the last CharacterInfo / Unknown event handled
    waiting,                \* per request: its command was sent, and since then neither a result event on its channel was handled nor its own timeout task ran
    registered_at           \* per request: number of result events handled before it entered the slot, or NotYet

VARIABLES
    \* ---- shutdown signal (main.rs watch::channel(false))
    shutdown,               \* the value of the watch channel
    \* ---- daily commands (CommandExecutor, start of RollScheduler::run)
    auto_daily,             \* config.auto_daily
    daily_time,             \* config.daily_time, as a slot of the day
    today,                  \* the calendar day of the clock
    now_slot,               \* the time of day of the clock, as a slot of the day
    last_daily,             \* CommandExecutor.last_daily: the day of the last run, or Absent
    d_pc,                   \* "check" | "send_daily" | "sleep" | "done"
    d_ch,                   \* index into channels of the for loop over the daily commands
    daily_log               \* the daily commands sent, in order

VARIABLES
    \* ---- the consumer loop (handler.rs run_event_loop)
    event_rx,               \* mpsc channel of gateway events, in delivery order
    request_rx,             \* mpsc channel of search requests, in delivery order
    next_item,              \* number of the next event or request delivered
    active,                 \* items whose handling has started and not finished, with the stage of each
    started                 \* the items in the order their handling started

consumer_vars == <<event_rx, request_rx, next_item, active, started>>

VARIABLES
    \* ---- kakera loot (Config)
    auto_react_kakera       \* config.auto_react_kakera

VARIABLES
    \* ---- wishlist store (wishlist.rs WishlistManager)
    characters,             \* data.characters, the Vec in memory
    disk,                   \* the characters in the wishlist file
    mem_version,            \* number of mutations made to the Vec
    disk_version,           \* mem_version of the Vec the file was written from
    w_pc,                   \* per task: "idle" | "save"
    w_op,                   \* the last operation called: task, kind, name
    w_count,                \* number of operations called
    w_result,               \* per task: "none" | "pending" | "ok" | "false" | "err"
    w_version               \* per task: mem_version after the mutation of its last operation, 0 when it made none

store_vars == <<characters, disk, mem_version, disk_version, w_pc, w_op, w_count, w_result, w_version>>

VARIABLES
    \* ---- startup (main.rs main, wishlist.rs WishlistManager::load)
    startup,                \* "load" | "running" | "aborted"
    file_state              \* the wishlist file: "missing" | "unreadable" | "malformed" | "ok"

startup_vars == <<startup, file_state>>

VARIABLES
    \* ---- wishlist queries (wishlist.rs WishlistManager::is_wished)
    fuzzy_enabled,          \* WishlistManager::fuzzy_enabled (config.fuzzy_match)
    q_name,                 \* name argument of the last is_wished call, empty before the first
    q_series,               \* series argument of the last is_wished call, an Option
    q_result                \* what the last is_wished call returned, an Option

match_vars == <<fuzzy_enabled, q_name, q_series, q_result>>

VARIABLES
    \* ---- cooldown queries (commands.rs get_all_available_roll_commands)
    cd_available,           \* what the last get_all_available_roll_commands call returned
    cd_op                   \* the last call on the cooldown map: kind and command

cooldown_vars == <<cd_available, cd_op>>

VARIABLES
    \* ---- classification (parser.rs MudaeParser::parse)
    p_message,              \* the message of the last parse call, an Option
    p_result                \* what the last parse call returned, an Option

parse_vars == <<p_message, p_result>>

VARIABLES
    \* ---- the rolls of the scheduler and their offers
    rolls_sent,             \* number of roll commands the scheduler has sent
    offers_pending          \* roll commands sent whose CharacterRoll message is not received yet

roll_count_vars == <<rolls_sent, offers_pending>>

VARIABLES
    \* ---- inbound messages (handler.rs MessageHandler::handle_message)
    target_channels,        \* MessageHandler.target_channels
    m_in,                   \* the message of the last handle_message call
    m_count,                \* number of handle_message calls
    m_route                 \* where the last call went: "none" | "ignored" | "mudae" | "user"

inbound_vars == <<target_channels, m_in, m_count, m_route>>

VARIABLES
    \* ---- the bounded logs of the dashboard (stats.rs Stats)
    activity_log,           \* Stats.activity_log, the events by the number of their log_event call
    roll_history,           \* Stats.roll_history, the entries by the number of their add_roll call
    channel_activity,       \* Stats.channel_activity, the activities by the number of their add_channel_activity call
    n_log,                  \* number of log_event calls
    n_roll,                 \* number of add_roll calls
    n_feed                  \* number of add_channel_activity calls

log_vars == <<activity_log, roll_history, channel_activity, n_log, n_roll, n_feed>>

\* the state of the message dispatch and of the logs
last_vars == <<inbound_vars, log_vars>>

\* the state of the slices below the wishlist store
later_vars == <<startup_vars, match_vars, cooldown_vars, parse_vars, roll_count_vars, last_vars>>

daily_vars == <<auto_daily, daily_time, today, now_slot, last_daily, d_pc, d_ch, daily_log>>

\* the state outside the decision engine, the scheduler loop and the lookup
\* coordinator
more_vars == <<shutdown, daily_vars, consumer_vars, auto_react_kakera, store_vars, later_vars>>

lookup_vars == <<pending_search, response, timer, search_rx, next_req, searching,
                 tui_pending, l_req, l_event, waiting, registered_at>>

engine_vars == <<auto_roll, wishlist_enabled, paused,
                 claim_available, rolls_remaining, roll_cooldowns,
                 s_pc, s_ch, s_current_rolls, s_sleep,
                 h_pc, h_msg, h_current_rolls, calls, outcome,
                 budget_seen, cooldown_seen>>

vars == <<engine_vars, lookup_vars, more_vars>>

(***************************************************************************)
(* Classified events (parser.rs MudaeMessage), the input of the handler    *)
(***************************************************************************)
ParsedCharacter == [is_claimed : BOOLEAN, is_wished : BOOLEAN, in_wishlist : BOOLEAN]

\* find_claim_button: (false, None), (true, None) or (true, Some(id))
ClaimButtons == { [has_claim_button |-> FALSE, claim_button_id |-> "None"],
                  [has_claim_button |-> TRUE,  claim_button_id |-> "None"],
                  [has_claim_button |-> TRUE,  claim_button_id |-> "btn"] }

NoCharacter == [is_claimed |-> FALSE, is_wished |-> FALSE, in_wishlist |-> FALSE]

MudaeMessage(type, character, button, count, available) ==
    [type |-> type, character |-> character,
     has_claim_button |-> button.has_claim_button,
     claim_button_id |-> button.claim_button_id,
     count |-> count, available |-> available]

NoButton == [has_claim_button |-> FALSE, claim_button_id |-> "None"]

NoMessage == MudaeMessage("None", NoCharacter, NoButton, 0, FALSE)

CharacterRoll(character, button) == MudaeMessage("CharacterRoll", character, button, 0, FALSE)

RollsRemaining(count) == MudaeMessage("RollsRemaining", NoCharacter, NoButton, count, FALSE)

ClaimAvailable(available) == MudaeMessage("ClaimAvailable", NoCharacter, NoButton, 0, available)

(***************************************************************************)
(* Initial state: after main.rs has built Stats, CommandExecutor,          *)
(* MessageHandler and RollScheduler                                         *)
(***************************************************************************)
EngineInit ==
    /\ auto_roll \in BOOLEAN
    /\ wishlist_enabled \in BOOLEAN
    /\ paused = FALSE
    /\ claim_available = TRUE
    /\ rolls_remaining = InitialRolls
    /\ roll_cooldowns = [c \in {roll_commands[i] : i \in 1..Len(roll_commands)} |-> Absent]
    /\ s_pc = "top"
    /\ s_ch = 1
    /\ s_current_rolls = 0
    /\ s_sleep = 0
    /\ h_pc = "idle"
    /\ h_msg = NoMessage
    /\ h_current_rolls = 0
    /\ calls = <<>>
    /\ outcome = "none"
    /\ budget_seen = Absent
    /\ cooldown_seen = "none"


config_vars == <<auto_roll, wishlist_enabled>>
sched_vars == <<s_pc, s_ch, s_current_rolls, s_sleep>>
handler_vars == <<h_pc, h_msg, h_current_rolls, calls, outcome>>

(***************************************************************************)
(* CommandExecutor (commands.rs)                                           *)
(***************************************************************************)
\* the filter closure of get_all_available_roll_commands: never used, or
command_available_after_duration(cooldowns, cmd) ==
    IF cooldowns[cmd] # Absent THEN cooldowns[cmd] > roll_cooldown_seconds ELSE TRUE

\* used at least roll_cooldown_seconds ago
command_available(cooldowns, cmd) ==
    IF cooldowns[cmd] # Absent THEN cooldowns[cmd] >= roll_cooldown_seconds ELSE TRUE

get_all_available_roll_commands(cooldowns) ==
    SelectSeq(roll_commands, LAMBDA cmd : command_available(cooldowns, cmd))

\* cooldowns.insert(command, Utc::now())
update_roll_cooldown(cooldowns, cmd) == [cooldowns EXCEPT ![cmd] = 0]

(***************************************************************************)
(* RollScheduler::run (commands.rs), the loop over the channels            *)
(***************************************************************************)
\* `continue` / end of the for body: on to the next channel, and from the
\* last channel back to the first by the enclosing loop
NextChannel(i) == IF i = Len(channels) THEN 1 ELSE i + 1

automation_off_ignoring_pause(roll_enabled, is_paused) == ~roll_enabled

\* the test at the top of the for body: !is_roll_enabled() || is_paused()
automation_off(roll_enabled, is_paused) == ~roll_enabled \/ is_paused

\* automation disabled or paused: sleep 5 s and continue
SchedulerIdleCycle ==
    /\ s_pc = "top" /\ s_sleep = 0
    /\ automation_off(auto_roll, paused)
    /\ s_sleep' = PausedSleep
    /\ s_ch' = NextChannel(s_ch)
    /\ UNCHANGED <<s_pc, s_current_rolls>>
    /\ UNCHANGED <<config_vars, handler_vars, paused, claim_available,
                   rolls_remaining, roll_cooldowns, budget_seen, cooldown_seen>>
    /\ UNCHANGED <<lookup_vars, more_vars>>

\* no rolls remaining: sleep 10 s and continue
SchedulerNoRolls ==
    /\ s_pc = "top" /\ s_sleep = 0
    /\ ~automation_off(auto_roll, paused)
    /\ rolls_remaining = 0
    /\ s_sleep' = NoRollsSleep
    /\ s_ch' = NextChannel(s_ch)
    /\ UNCHANGED <<s_pc, s_current_rolls>>
    /\ UNCHANGED <<config_vars, handler_vars, paused, claim_available,
                   rolls_remaining, roll_cooldowns, budget_seen, cooldown_seen>>
    /\ UNCHANGED <<lookup_vars, more_vars>>

\* rolls remaining: go on to pick the command
SchedulerBegin ==
    /\ s_pc = "top" /\ s_sleep = 0
    /\ ~automation_off(auto_roll, paused)
    /\ rolls_remaining # 0
    /\ s_pc' = "pick"
    /\ UNCHANGED <<s_ch, s_current_rolls, s_sleep>>
    /\ UNCHANGED <<config_vars, handler_vars, paused, claim_available,
                   rolls_remaining, roll_cooldowns, budget_seen, cooldown_seen>>
    /\ UNCHANGED <<lookup_vars, more_vars>>

\* roll_commands.first(), then the second read of the counter
SchedulerPick ==
    /\ s_pc = "pick"
    /\ roll_commands # <<>>
    /\ s_current_rolls' = rolls_remaining
    /\ IF rolls_remaining = 0
          THEN /\ s_pc' = "top"
               /\ s_ch' = NextChannel(s_ch)
          ELSE /\ s_pc' = "send"
               /\ s_ch' = s_ch
    /\ UNCHANGED s_sleep
    /\ UNCHANGED <<config_vars, handler_vars, paused, claim_available,
                   rolls_remaining, roll_cooldowns, budget_seen, cooldown_seen>>
    /\ UNCHANGED <<lookup_vars, more_vars>>

after_send_always_marks(ok) == "mark"

\* if let Err(e) = send_message(..) { sleep; continue; }: a failed send
\* ends the cycle, a sent command goes on to the cooldown and the counters
after_send(ok) == IF ok THEN "mark" ELSE "top"

\* client.send_message(channel_id, cmd): the cooldown map is not consulted
SendRollCommand ==
    /\ s_pc = "send"
    /\ \E ok \in BOOLEAN :
         /\ s_pc' = after_send(ok)
         /\ IF ok
              THEN /\ budget_seen' = Absent
                   /\ UNCHANGED <<s_ch, s_sleep, s_current_rolls>>
              ELSE /\ s_sleep' = SendFailSleep
                   /\ s_ch' = NextChannel(s_ch)
                   /\ s_current_rolls' = 0
                   /\ UNCHANGED budget_seen
    /\ UNCHANGED <<config_vars, handler_vars, paused, claim_available,
                   rolls_remaining, roll_cooldowns, cooldown_seen>>

SchedulerSend == SendRollCommand /\ UNCHANGED <<lookup_vars, more_vars>>

\* the counter written by the scheduler after a roll
scheduler_rolls_after(current_rolls, remaining) ==
    IF current_rolls > 0 THEN current_rolls - 1 ELSE remaining

\* update_roll_cooldown, set_rolls_remaining(current_rolls - 1), sleep 1 s
SchedulerMark ==
    /\ s_pc = "mark"
    /\ roll_cooldowns' = update_roll_cooldown(roll_cooldowns, Head(roll_commands))
    /\ rolls_remaining' = scheduler_rolls_after(s_current_rolls, rolls_remaining)
    /\ s_pc' = "top"
    /\ s_sleep' = RollDelay
    /\ s_ch' = NextChannel(s_ch)
    /\ s_current_rolls' = 0
    /\ UNCHANGED <<config_vars, handler_vars, paused, claim_available,
                   budget_seen, cooldown_seen>>
    /\ UNCHANGED <<lookup_vars, more_vars>>

(***************************************************************************)
(* Dashboard (tui.rs): the pause key                                       *)
(***************************************************************************)
TogglePaused ==
    /\ paused' = ~paused
    /\ UNCHANGED <<config_vars, sched_vars, handler_vars, claim_available,
                   rolls_remaining, roll_cooldowns, budget_seen, cooldown_seen>>
    /\ UNCHANGED <<lookup_vars, more_vars>>

(***************************************************************************)
(* Time: one second passes                                                 *)
(***************************************************************************)
Older(age) == IF age = Absent \/ age >= roll_cooldown_seconds THEN age ELSE age + 1

EngineTick ==
    /\ s_sleep' = IF s_sleep > 0 THEN s_sleep - 1 ELSE 0
    /\ roll_cooldowns' = [c \in DOMAIN roll_cooldowns |-> Older(roll_cooldowns[c])]
    /\ UNCHANGED <<s_pc, s_ch, s_current_rolls>>
    /\ UNCHANGED <<config_vars, handler_vars, paused, claim_available,
                   rolls_remaining, budget_seen, cooldown_seen>>
    /\ UNCHANGED <<lookup_vars, more_vars>>

(***************************************************************************)
(* MessageHandler (handler.rs).  run_event_loop awaits the handling of     *)
(* one event before it receives the next, so a new event is taken only     *)
(* when h_pc = "idle".  The classified event is the input.                 *)
(***************************************************************************)
\* handle_character_roll, the three early returns before the preference
\* check: already claimed, paused, claim not available
claim_gate_without_claimed_check(character, is_paused, is_claim_available) ==
    /\ ~is_paused
    /\ is_claim_available

claim_gate(character, is_paused, is_claim_available) ==
    /\ ~character.is_claimed
    /\ ~is_paused
    /\ is_claim_available

should_claim_flag_only(character) == character.is_wished

\* should_claim_character
should_claim_character(character) ==
    IF character.is_wished THEN TRUE
    ELSE IF wishlist_enabled /\ character.in_wishlist THEN TRUE
    ELSE FALSE

handler_rolls_after_unguarded(current_rolls, remaining) == current_rolls - 1

\* the counter written by handle_character_roll
handler_rolls_after(current_rolls, remaining) ==
    IF current_rolls > 0 THEN current_rolls - 1 ELSE remaining

\* CharacterRoll arm: increment_rolled, read of the counter
TakeCharacterRoll ==
    /\ h_pc = "idle"
    /\ \E character \in ParsedCharacter, button \in ClaimButtons :
         h_msg' = CharacterRoll(character, button)
    /\ h_current_rolls' = rolls_remaining
    /\ h_pc' = "decrement"
    /\ calls' = <<>>
    /\ outcome' = "none"
    /\ budget_seen' = Absent
    /\ UNCHANGED <<config_vars, sched_vars, paused, claim_available,
                   rolls_remaining, roll_cooldowns, cooldown_seen>>

ReceiveCharacterRoll == TakeCharacterRoll /\ UNCHANGED <<lookup_vars, more_vars>>

\* set_rolls_remaining(current_rolls - 1) when current_rolls > 0, add_roll
DecrementRolls ==
    /\ h_pc = "decrement"
    /\ rolls_remaining' = handler_rolls_after(h_current_rolls, rolls_remaining)
    /\ h_pc' = "decide"
    /\ h_current_rolls' = 0
    /\ UNCHANGED <<h_msg, calls, outcome>>
    /\ UNCHANGED <<config_vars, sched_vars, paused, claim_available,
                   roll_cooldowns, budget_seen, cooldown_seen>>
    /\ UNCHANGED <<lookup_vars, more_vars>>

\* the early returns and should_claim_character; a claim goes on to the
\* jitter sleep
DecideClaim ==
    /\ h_pc = "decide"
    /\ IF claim_gate(h_msg.character, paused, claim_available)
          /\ should_claim_character(h_msg.character)
          THEN /\ h_pc' = "claim"
               /\ outcome' = outcome
          ELSE /\ h_pc' = "idle"
               /\ outcome' = "skipped"
    /\ UNCHANGED <<h_msg, h_current_rolls, calls>>
    /\ UNCHANGED <<config_vars, sched_vars, paused, claim_available,
                   rolls_remaining, roll_cooldowns, budget_seen, cooldown_seen>>
    /\ UNCHANGED <<lookup_vars, more_vars>>

after_click_without_fallback(ok) == "idle"

\* what follows a click of the claim button: done when it succeeded, the
\* reaction fallback when it failed
after_click(ok) == IF ok THEN "idle" ELSE "fallback"

\* the record of a claim attempt: increment_claimed or the Error event
claim_record(ok) == IF ok THEN "claimed" ELSE "failed"

claim_flag_consumed_by_claim(flag, ok) == IF ok THEN FALSE ELSE flag

\* the claim-available flag after a claim attempt: the match on claim_result
\* counts and logs, and does not call set_claim_available
claim_flag_after_attempt(flag, ok) == flag

\* execute_button_claim when the roll carries a claim_button_id
ClickClaimButton ==
    /\ h_pc = "claim"
    /\ h_msg.claim_button_id # "None"
    /\ \E ok \in BOOLEAN :
         /\ calls' = Append(calls, [call |-> "click_button", ok |-> ok])
         /\ h_pc' = after_click(ok)
         /\ outcome' = IF after_click(ok) = "idle" THEN claim_record(ok) ELSE outcome
         /\ claim_available' = IF after_click(ok) = "idle"
                                 THEN claim_flag_after_attempt(claim_available, ok)
                                 ELSE claim_available
    /\ UNCHANGED <<h_msg, h_current_rolls>>
    /\ UNCHANGED <<config_vars, sched_vars, paused,
                   rolls_remaining, roll_cooldowns, budget_seen, cooldown_seen>>
    /\ UNCHANGED <<lookup_vars, more_vars>>

\* execute_claim: add_reaction with the heart, after a failed click or
\* when the roll carries no claim_button_id
ReactClaim ==
    /\ \/ h_pc = "fallback"
       \/ h_pc = "claim" /\ h_msg.claim_button_id = "None"
    /\ \E ok \in BOOLEAN :
         /\ calls' = Append(calls, [call |-> "add_reaction", ok |-> ok])
         /\ outcome' = claim_record(ok)
         /\ claim_available' = claim_flag_after_attempt(claim_available, ok)
    /\ h_pc' = "idle"
    /\ UNCHANGED <<h_msg, h_current_rolls>>
    /\ UNCHANGED <<config_vars, sched_vars, paused,
                   rolls_remaining, roll_cooldowns, budget_seen, cooldown_seen>>
    /\ UNCHANGED <<lookup_vars, more_vars>>

\* RollsRemaining arm: set_rolls_remaining(count)
TakeRollsRemaining ==
    /\ h_pc = "idle"
    /\ \E count \in 0..MaxCount :
         /\ h_msg' = RollsRemaining(count)
         /\ rolls_remaining' = count
         /\ budget_seen' = count
    /\ calls' = <<>>
    /\ outcome' = "none"
    /\ UNCHANGED <<h_pc, h_current_rolls>>
    /\ UNCHANGED <<config_vars, sched_vars, paused, claim_available,
                   roll_cooldowns, cooldown_seen>>

ReceiveRollsRemaining == TakeRollsRemaining /\ UNCHANGED <<lookup_vars, more_vars>>

claim_flag_always_set(available) == TRUE

\* the flag stored by the ClaimAvailable arm
claim_flag_after(available) == available

\* ClaimAvailable arm: set_claim_available(available)
TakeClaimAvailable ==
    /\ h_pc = "idle"
    /\ \E available \in BOOLEAN :
         /\ h_msg' = ClaimAvailable(available)
         /\ claim_available' = claim_flag_after(available)
         /\ cooldown_seen' = IF available THEN "available" ELSE "unavailable"
    /\ calls' = <<>>
    /\ outcome' = "none"
    /\ UNCHANGED <<h_pc, h_current_rolls>>
    /\ UNCHANGED <<config_vars, sched_vars, paused, rolls_remaining,
                   roll_cooldowns, budget_seen>>

ReceiveClaimAvailable == TakeClaimAvailable /\ UNCHANGED <<lookup_vars, more_vars>>

\* KakeraLoot { button_id }: the button id travels in the button slot of
\* the message
KakeraLoot(button_id) ==
    MudaeMessage("KakeraLoot", NoCharacter,
                 [has_claim_button |-> FALSE, claim_button_id |-> button_id], 0, FALSE)

\* KakeraLoot arm, handle_kakera_loot up to the jitter sleep: nothing when
\* auto_react_kakera is off
TakeKakeraLoot ==
    /\ h_pc = "idle"
    /\ \E button_id \in {"None", "btn"} : h_msg' = KakeraLoot(button_id)
    /\ calls' = <<>>
    /\ IF auto_react_kakera
          THEN /\ h_pc' = "kakera"
               /\ outcome' = "none"
          ELSE /\ h_pc' = "idle"
               /\ outcome' = "skipped"
    /\ UNCHANGED h_current_rolls
    /\ UNCHANGED <<config_vars, sched_vars, paused, claim_available,
                   rolls_remaining, roll_cooldowns, budget_seen, cooldown_seen>>

ReceiveKakeraLoot == TakeKakeraLoot /\ UNCHANGED <<lookup_vars, more_vars>>

kakera_call_always_react(button_id) == "add_reaction"

\* execute_kakera_react: the button when there is one, else the reaction
kakera_call(button_id) == IF button_id # "None" THEN "click_button" ELSE "add_reaction"

\* the Result of execute_kakera_react: the error of a click is returned,
\* the error of the reaction is logged and Ok returned
kakera_record(call, ok) == IF call = "click_button" /\ ~ok THEN "failed" ELSE "collected"

\* after the jitter sleep: execute_kakera_react and the record of it
KakeraReact ==
    /\ h_pc = "kakera"
    /\ IF auto_react_kakera
          THEN \E ok \in BOOLEAN :
                 /\ calls' = Append(calls,
                                    IF kakera_call(h_msg.claim_button_id) = "click_button"
                                      THEN [call |-> "click_button", ok |-> ok]
                                      ELSE [call |-> "add_reaction", emoji |-> "kakera", ok |-> ok])
                 /\ outcome' = kakera_record(kakera_call(h_msg.claim_button_id), ok)
          ELSE /\ calls' = calls
               /\ outcome' = "collected"
    /\ h_pc' = "idle"
    /\ UNCHANGED <<h_msg, h_current_rolls>>
    /\ UNCHANGED <<config_vars, sched_vars, paused, claim_available,
                   rolls_remaining, roll_cooldowns, budget_seen, cooldown_seen>>
    /\ UNCHANGED <<lookup_vars, more_vars>>

(***************************************************************************)
(* Lookup coordinator                                                      *)
(***************************************************************************)
\* largest number of search requests the dashboard submits
MaxRequests == 2
\* largest number of CharacterInfo / Unknown events handled
MaxEvents == 1
\* Duration::from_secs(10) of the timeout task
LookupTimeout == 10
\* capacity of the mpsc channel of create_search_channel
SearchChannelCapacity == 16
\* timer values besides the seconds left: task not spawned, task has run
NotSpawned == -1
Fired == -2
\* registered_at of a request that has not entered the slot
NotYet == -1

Requests == 1..MaxRequests

\* what the character embed of a result event shows (author name, first
\* description line)
SearchResults == { [name |-> "Rem", series |-> "Re:Zero"],
                   [name |-> "Ram", series |-> "Re:Zero"] }

NoPending == [channel |-> 0, req |-> 0]

\* states of a oneshot channel: nothing sent yet, Sender dropped without a
\* send, None sent, Some(SearchResult) sent
Open == [kind |-> "open", name |-> "", series |-> "", event |-> 0]
Dropped == [kind |-> "dropped", name |-> "", series |-> "", event |-> 0]
NoneSent == [kind |-> "None", name |-> "", series |-> "", event |-> 0]
SomeResult(name, series, event) ==
    [kind |-> "Some", name |-> name, series |-> series, event |-> event]

NoEvent == [type |-> "None", channel |-> 0, name |-> "", series |-> "",
            has_author |-> FALSE, index |-> 0]

LookupInit ==
    /\ pending_search = NoPending
    /\ response = [r \in Requests |-> Open]
    /\ timer = [r \in Requests |-> NotSpawned]
    /\ search_rx = <<>>
    /\ next_req = 1
    /\ searching = FALSE
    /\ tui_pending = 0
    /\ l_req = 0
    /\ l_event = NoEvent
    /\ waiting = [r \in Requests |-> FALSE]
    /\ registered_at = [r \in Requests |-> NotYet]

engine_rest == <<auto_roll, wishlist_enabled, paused, claim_available,
                 rolls_remaining, roll_cooldowns, s_pc, s_ch, s_current_rolls,
                 s_sleep, h_msg, h_current_rolls, calls, outcome,
                 budget_seen, cooldown_seen, more_vars>>

\* tx.send(value) on the Sender taken out of the slot; nothing when the slot
\* was empty
send_response(resp, p, value) ==
    IF p.req # 0 THEN [resp EXCEPT ![p.req] = value] ELSE resp

\* *pending_search = Some(new): the Sender that was in the slot is dropped
drop_pending(resp, p) ==
    IF p.req # 0 THEN [resp EXCEPT ![p.req] = Dropped] ELSE resp

(***************************************************************************)
(* Daily commands: the for loop at the start of RollScheduler::run and     *)
(* CommandExecutor::execute_daily_commands.  The clock is a day and a slot *)
(* of the day.                                                             *)
(***************************************************************************)
\* last day of the clock
MaxDay == 1
\* slots of a day
DaySlots == 2

NoDailyLog == <<>>

DailyInit ==
    /\ auto_daily \in BOOLEAN
    /\ daily_time \in 0..(DaySlots - 1)
    /\ today = 0
    /\ now_slot \in 0..(DaySlots - 1)
    /\ last_daily = Absent
    /\ d_pc = "check"
    /\ d_ch = 1
    /\ daily_log = NoDailyLog

\* should_run_daily: no last run, or a last run on another day and the
\* time of day at or after the configured one
should_run_daily(last, day, slot, schedule) ==
    IF last # Absent
      THEN IF last = day THEN FALSE ELSE slot >= schedule
      ELSE TRUE

\* the for loop over the channels: on to the next channel, or out of it
DailyNext(i) == IF i = Len(channels) THEN "done" ELSE "check"

DailyNextChannel(i) == IF i = Len(channels) THEN i ELSE i + 1

\* is_daily_enabled, auto_daily and should_run_daily of one channel
DailyCheck ==
    /\ d_pc = "check"
    /\ IF auto_daily /\ should_run_daily(last_daily, today, now_slot, daily_time)
          THEN /\ d_pc' = "send_daily"
               /\ d_ch' = d_ch
          ELSE /\ d_pc' = DailyNext(d_ch)
               /\ d_ch' = DailyNextChannel(d_ch)
    /\ UNCHANGED <<auto_daily, daily_time, today, now_slot, last_daily, daily_log>>
    /\ UNCHANGED <<engine_vars, lookup_vars, shutdown, consumer_vars, auto_react_kakera, store_vars, later_vars>>

\* send_message(channel_id, "$daily")?: an error leaves the function
DailySend ==
    /\ d_pc = "send_daily"
    /\ \E ok \in BOOLEAN :
         IF ok
           THEN /\ daily_log' = Append(daily_log, [cmd |-> "$daily", channel |-> channels[d_ch],
                                                    day |-> today, slot |-> now_slot])
                /\ d_pc' = "sleep"
                /\ d_ch' = d_ch
           ELSE /\ daily_log' = daily_log
                /\ d_pc' = DailyNext(d_ch)
                /\ d_ch' = DailyNextChannel(d_ch)
    /\ UNCHANGED <<auto_daily, daily_time, today, now_slot, last_daily>>
    /\ UNCHANGED <<engine_vars, lookup_vars, shutdown, consumer_vars, auto_react_kakera, store_vars, later_vars>>

\* after the sleep of 2 s: send_message(channel_id, "$dk")?, then
\* last_daily = Some(Utc::now()); an error leaves last_daily as it is
DailySendDk ==
    /\ d_pc = "sleep"
    /\ \E ok \in BOOLEAN :
         IF ok
           THEN /\ daily_log' = Append(daily_log, [cmd |-> "$dk", channel |-> channels[d_ch],
                                                    day |-> today, slot |-> now_slot])
                /\ last_daily' = today
           ELSE /\ daily_log' = daily_log
                /\ last_daily' = last_daily
    /\ d_pc' = DailyNext(d_ch)
    /\ d_ch' = DailyNextChannel(d_ch)
    /\ UNCHANGED <<auto_daily, daily_time, today, now_slot>>
    /\ UNCHANGED <<engine_vars, lookup_vars, shutdown, consumer_vars, auto_react_kakera, store_vars, later_vars>>

\* the clock moves on by one slot, over midnight to the next day
DailyTick ==
    /\ IF now_slot < DaySlots - 1
          THEN /\ now_slot' = now_slot + 1
               /\ today' = today
          ELSE /\ today < MaxDay
               /\ now_slot' = 0
               /\ today' = today + 1
    /\ UNCHANGED <<auto_daily, daily_time, last_daily, d_pc, d_ch, daily_log>>
    /\ UNCHANGED <<engine_vars, lookup_vars, shutdown, consumer_vars, auto_react_kakera, store_vars, later_vars>>

NextDaily ==
    \/ DailyCheck
    \/ DailySend
    \/ DailySendDk
    \/ DailyTick

(***************************************************************************)
(* Shutdown: main.rs sends true on the watch channel                       *)
(***************************************************************************)
RaiseShutdown ==
    /\ ~shutdown
    /\ shutdown' = TRUE
    /\ UNCHANGED <<engine_vars, lookup_vars, daily_vars, consumer_vars, auto_react_kakera, store_vars, later_vars>>

(***************************************************************************)
(* run_event_loop: one task, select! over the event channel and the        *)
(* request channel, the handling awaited inside the loop body              *)
(***************************************************************************)
\* largest number of events and requests delivered
MaxItems == 3
\* mpsc::channel(100) of gateway events
EventChannelCapacity == 100

\* the stages of a handling: classification and decision, the jitter
\* delay, the outbound call
Stages == <<"decide", "jitter", "call">>

ConsumerInit ==
    /\ event_rx = <<>>
    /\ request_rx = <<>>
    /\ next_item = 1
    /\ active = {}
    /\ started = <<>>

\* EventHandler: the gateway delivers an event
DeliverEvent ==
    /\ next_item <= MaxItems
    /\ Len(event_rx) < EventChannelCapacity
    /\ event_rx' = Append(event_rx, [kind |-> "event", item |-> next_item])
    /\ next_item' = next_item + 1
    /\ UNCHANGED <<request_rx, active, started>>
    /\ UNCHANGED <<engine_vars, lookup_vars, shutdown, daily_vars, auto_react_kakera, store_vars, later_vars>>

\* the dashboard sends a search request
DeliverRequest ==
    /\ next_item <= MaxItems
    /\ Len(request_rx) < SearchChannelCapacity
    /\ request_rx' = Append(request_rx, [kind |-> "request", item |-> next_item])
    /\ next_item' = next_item + 1
    /\ UNCHANGED <<event_rx, active, started>>
    /\ UNCHANGED <<engine_vars, lookup_vars, shutdown, daily_vars, auto_react_kakera, store_vars, later_vars>>

loop_at_select_spawning(handlings) == TRUE

\* the loop is back at select! only when the awaited handling has returned
loop_at_select(handlings) == handlings = {}

\* select!: the head of a channel that has one; either when both have
ConsumerTake ==
    /\ loop_at_select(active)
    /\ \/ /\ event_rx # <<>>
          /\ active' = active \cup {[kind |-> "event", item |-> Head(event_rx).item, stage |-> 1]}
          /\ started' = Append(started, Head(event_rx))
          /\ event_rx' = Tail(event_rx)
          /\ UNCHANGED request_rx
       \/ /\ request_rx # <<>>
          /\ active' = active \cup {[kind |-> "request", item |-> Head(request_rx).item, stage |-> 1]}
          /\ started' = Append(started, Head(request_rx))
          /\ request_rx' = Tail(request_rx)
          /\ UNCHANGED event_rx
    /\ UNCHANGED next_item
    /\ UNCHANGED <<engine_vars, lookup_vars, shutdown, daily_vars, auto_react_kakera, store_vars, later_vars>>

\* handle_event / handle_search_request move on over an await
ConsumerStep ==
    /\ \E h \in active :
         /\ h.stage < Len(Stages)
         /\ active' = (active \ {h}) \cup {[h EXCEPT !.stage = h.stage + 1]}
    /\ UNCHANGED <<event_rx, request_rx, next_item, started>>
    /\ UNCHANGED <<engine_vars, lookup_vars, shutdown, daily_vars, auto_react_kakera, store_vars, later_vars>>

\* the handling returns; a handling may return from any stage
ConsumerReturn ==
    /\ \E h \in active : active' = active \ {h}
    /\ UNCHANGED <<event_rx, request_rx, next_item, started>>
    /\ UNCHANGED <<engine_vars, lookup_vars, shutdown, daily_vars, auto_react_kakera, store_vars, later_vars>>

NextConsumer ==
    \/ DeliverEvent
    \/ DeliverRequest
    \/ ConsumerTake
    \/ ConsumerStep
    \/ ConsumerReturn

(***************************************************************************)
(* Wishlist store (wishlist.rs).  A mutating operation changes the Vec     *)
(* under the write lock, drops the lock, and calls save(), which takes the *)
(* lock again and writes the Vec as it then is.                            *)
(***************************************************************************)
\* longest Vec
MaxEntries == 2
\* operations called
MaxOps == 3
\* largest priority
MaxPriority == 1

\* the dashboard and the verifier
Tasks == {"tui", "verifier"}

Names == {"Rem", "rem", "Ram"}

\* String::to_lowercase on Names
to_lowercase(name) ==
    IF name = "Rem" THEN "rem"
    ELSE IF name = "Ram" THEN "ram"
    ELSE name

WishedCharacter == [name : Names, verified : BOOLEAN, priority : 0..MaxPriority]

NoOp == [task |-> "none", kind |-> "none", name |-> ""]

StoreInit ==
    /\ characters = <<>>
    /\ disk = <<>>
    /\ mem_version = 0
    /\ disk_version = 0
    /\ w_pc = [t \in Tasks |-> "idle"]
    /\ w_op = NoOp
    /\ w_count = 0
    /\ w_result = [t \in Tasks |-> "none"]
    /\ w_version = [t \in Tasks |-> 0]

same_name_case_sensitive(a, b) == a = b

\* c.name.to_lowercase() == name.to_lowercase()
same_name(a, b) == to_lowercase(a) = to_lowercase(b)

\* characters.iter().any(..)
name_exists(cs, name) == \E i \in 1..Len(cs) : same_name(cs[i].name, name)

\* characters.iter_mut().find(..): the first entry of that name
find_character(cs, name) ==
    CHOOSE i \in 1..Len(cs) :
        /\ same_name(cs[i].name, name)
        /\ \A j \in 1..(i - 1) : ~same_name(cs[j].name, name)

\* characters.retain(..)
retain_others(cs, name) == SelectSeq(cs, LAMBDA c : ~same_name(c.name, name))

\* the body of update_character_verification on the entry found
verified_entry(c, verified, canonical_name) ==
    [c EXCEPT !.verified = verified,
              !.name = IF canonical_name # "None" THEN canonical_name ELSE c.name]

\* the loop of import
RECURSIVE import_all(_, _)
import_all(cs, incoming) ==
    IF incoming = <<>> THEN cs
    ELSE import_all(IF name_exists(cs, Head(incoming).name) THEN cs ELSE Append(cs, Head(incoming)),
                    Tail(incoming))

return_without_save(changed) == "idle"

\* after the lock is dropped: save() when the operation changed the Vec
\* (import and clear: always), else return
after_mutation(changed) == IF changed THEN "save" ELSE "idle"

\* one mutating operation of task t up to the drop of the write lock
Mutate(t, op, cs, changed) ==
    /\ w_pc[t] = "idle"
    /\ w_count < MaxOps
    /\ Len(cs) <= MaxEntries
    /\ characters' = cs
    /\ mem_version' = IF changed THEN mem_version + 1 ELSE mem_version
    /\ w_op' = [task |-> t, kind |-> op.kind, name |-> op.name]
    /\ w_count' = w_count + 1
    /\ w_version' = [w_version EXCEPT ![t] = IF changed THEN mem_version + 1 ELSE 0]
    /\ w_pc' = [w_pc EXCEPT ![t] = after_mutation(changed)]
    /\ w_result' = [w_result EXCEPT ![t] =
                       IF ~changed THEN "false"
                       ELSE IF after_mutation(changed) = "save" THEN "pending" ELSE "ok"]
    /\ UNCHANGED <<disk, disk_version>>
    /\ UNCHANGED <<engine_vars, lookup_vars, shutdown, daily_vars, consumer_vars, auto_react_kakera, later_vars>>

AddCharacter ==
    \E t \in Tasks, character \in WishedCharacter :
        /\ character.priority = 0
        /\ IF name_exists(characters, character.name)
             THEN Mutate(t, [kind |-> "add", name |-> character.name], characters, FALSE)
             ELSE Mutate(t, [kind |-> "add", name |-> character.name], Append(characters, character), TRUE)

RemoveCharacter ==
    \E t \in Tasks, name \in Names :
        Mutate(t, [kind |-> "remove", name |-> name], retain_others(characters, name),
               Len(retain_others(characters, name)) < Len(characters))

UpdateCharacterVerification ==
    \E t \in Tasks, name \in Names, verified \in BOOLEAN, canonical_name \in Names \cup {"None"} :
        IF name_exists(characters, name)
          THEN Mutate(t, [kind |-> "update_verification", name |-> name],
                      [characters EXCEPT ![find_character(characters, name)] =
                          verified_entry(@, verified, canonical_name)],
                      TRUE)
          ELSE Mutate(t, [kind |-> "update_verification", name |-> name], characters, FALSE)

SetPriority ==
    \E t \in Tasks, name \in Names, priority \in 0..MaxPriority :
        IF name_exists(characters, name)
          THEN Mutate(t, [kind |-> "set_priority", name |-> name],
                      [characters EXCEPT ![find_character(characters, name)].priority = priority],
                      TRUE)
          ELSE Mutate(t, [kind |-> "set_priority", name |-> name], characters, FALSE)

\* the lists handed to import
ImportLists ==
    LET New(n) == [name |-> n, verified |-> FALSE, priority |-> 0]
    IN  { <<>>, <<New("Rem")>>, <<New("rem"), New("Ram")>>, <<New("Rem"), New("rem")>> }

Import ==
    \E t \in Tasks, incoming \in ImportLists :
        Mutate(t, [kind |-> "import", name |-> ""], import_all(characters, incoming), TRUE)

Clear ==
    \E t \in Tasks :
        Mutate(t, [kind |-> "clear", name |-> ""], <<>>, TRUE)

save_error_swallowed(ok) == "ok"

\* self.save().await? : the error of save() is the error of the operation
save_result(ok) == IF ok THEN "ok" ELSE "err"

\* save(): under the write lock, the Vec as it is now goes to the file; an
\* error of the write is the error of the operation
Save ==
    \E t \in Tasks, ok \in BOOLEAN :
        /\ w_pc[t] = "save"
        /\ w_pc' = [w_pc EXCEPT ![t] = "idle"]
        /\ w_result' = [w_result EXCEPT ![t] = save_result(ok)]
        /\ IF ok
             THEN /\ disk' = characters
                  /\ disk_version' = mem_version
             ELSE UNCHANGED <<disk, disk_version>>
        /\ UNCHANGED <<characters, mem_version, w_op, w_count, w_version>>
        /\ UNCHANGED <<engine_vars, lookup_vars, shutdown, daily_vars, consumer_vars, auto_react_kakera, later_vars>>

NextStore ==
    \/ AddCharacter
    \/ RemoveCharacter
    \/ UpdateCharacterVerification
    \/ SetPriority
    \/ Import
    \/ Clear
    \/ Save

(***************************************************************************)
(* Startup (main.rs main): with wishlist_enabled the wishlist file is      *)
(* loaded before any task is spawned, and an error of the load is returned *)
(* from main with `?`.                                                     *)
(***************************************************************************)
\* the files a start can find: none, one that cannot be read, one that is
\* not the JSON of a WishlistData, one that is
FileStates == {"missing", "unreadable", "malformed", "ok"}

\* the lists a well-formed file can hold
RECURSIVE ListsUpTo(_)
ListsUpTo(n) ==
    IF n = 0 THEN {<<>>}
    ELSE LET shorter == ListsUpTo(n - 1)
         IN  shorter \cup {Append(cs, c) : cs \in {l \in shorter : Len(l) = n - 1}, c \in WishedCharacter}

\* main has loaded the file, which held the empty list
StartupDone == startup = "running" /\ file_state = "ok"

\* main before the load: WishlistManager::new gives the empty Vec
StartupInit ==
    /\ startup = "load"
    /\ file_state \in FileStates
    /\ disk \in (IF file_state = "ok" THEN ListsUpTo(MaxEntries) ELSE {<<>>})
    /\ characters = <<>>
    /\ mem_version = 0
    /\ disk_version = 0
    /\ w_pc = [t \in Tasks |-> "idle"]
    /\ w_op = NoOp
    /\ w_count = 0
    /\ w_result = [t \in Tasks |-> "none"]
    /\ w_version = [t \in Tasks |-> 0]

\* WishlistManager::load: Ok or Err, by the file it finds and, with no
\* file, by the save of the empty store
load(state, save_ok) ==
    CASE state = "missing" -> IF save_ok THEN "ok" ELSE "err"
      [] state = "unreadable" -> "err"
      [] state = "malformed" -> "err"
      [] OTHER -> "ok"

\* main.rs: if config.wishlist_enabled { wishlist.load().await.context(..)?; }
LoadWishlist ==
    /\ startup = "load"
    /\ \E save_ok \in BOOLEAN :
         IF ~wishlist_enabled
           THEN /\ startup' = "running"
                /\ UNCHANGED <<characters, disk, file_state>>
           ELSE /\ startup' = IF load(file_state, save_ok) = "ok" THEN "running" ELSE "aborted"
                /\ characters' = IF file_state = "ok" THEN disk ELSE characters
                /\ disk' = IF file_state = "missing" /\ save_ok THEN characters ELSE disk
                /\ file_state' = IF file_state = "missing" /\ save_ok THEN "ok" ELSE file_state
    /\ UNCHANGED <<mem_version, disk_version, w_pc, w_op, w_count, w_result, w_version>>
    /\ UNCHANGED <<engine_vars, lookup_vars, shutdown, daily_vars, consumer_vars, auto_react_kakera, match_vars, cooldown_vars, parse_vars, roll_count_vars, last_vars>>

(***************************************************************************)
(* Wishlist queries (wishlist.rs is_wished, matches_character,             *)
(* matches_series).  A string is the sequence of its characters, an        *)
(* Option is the empty sequence or the sequence of its one value.          *)
(***************************************************************************)
None == <<>>
Some(x) == <<x>>

Rem_ == <<"R", "e", "m">>
rem_ == <<"r", "e", "m">>
Ram_ == <<"R", "a", "m">>
Megumi_ == <<"M", "e", "g", "u", "m", "i">>
Megumin_ == <<"M", "e", "g", "u", "m", "i", "n">>
\* the names stored and asked for
MatchNames == {Rem_, rem_, Ram_, Megumi_, Megumin_}

FateZero_ == <<"F", "a", "t", "e", "/", "Z", "e", "r", "o">>
fatezero_ == <<"f", "a", "t", "e", "/", "z", "e", "r", "o">>
Fate_Zero_ == <<"F", "a", "t", "e", " ", "Z", "e", "r", "o">>
ReZero_ == <<"R", "e", ":", "Z", "e", "r", "o">>
\* the series rolled
MatchSeries == {FateZero_, fatezero_, Fate_Zero_, ReZero_}
\* the series stored
StoredSeries == {FateZero_, ReZero_}

\* char::to_lowercase on the characters of MatchNames and MatchSeries
lower(c) ==
    CASE c = "R" -> "r"
      [] c = "M" -> "m"
      [] c = "F" -> "f"
      [] c = "Z" -> "z"
      [] OTHER -> c

\* str::to_lowercase
lowercase(str) == [i \in 1..Len(str) |-> lower(str[i])]

min3(x, y, z) == IF x <= y /\ x <= z THEN x ELSE IF y <= z THEN y ELSE z

\* one row of the edit distance table: cur holds the columns 0..Len(cur)-1
\* of the row of character ca, prev is the row above
RECURSIVE lev_row(_, _, _, _)
lev_row(prev, ca, b, cur) ==
    IF Len(cur) = Len(b) + 1 THEN cur
    ELSE LET j == Len(cur)
             cost == IF ca = b[j] THEN 0 ELSE 1
         IN  lev_row(prev, ca, b, Append(cur, min3(prev[j + 1] + 1, cur[j] + 1, prev[j] + cost)))

RECURSIVE lev_from(_, _, _, _)
lev_from(a, b, i, prev) ==
    IF i > Len(a) THEN prev[Len(b) + 1]
    ELSE lev_from(a, b, i + 1, lev_row(prev, a[i], b, <<i>>))

\* strsim::levenshtein
levenshtein(a, b) == lev_from(a, b, 1, [j \in 1..(Len(b) + 1) |-> j - 1])

\* config.fuzzy_threshold of Config::default (0.8), in hundredths
fuzzy_threshold == 80

\* the lowercase strings that are compared
Lowercased == {lowercase(str) : str \in MatchNames \cup MatchSeries}

\* the edit distances of the strings that are compared
distance == [a \in Lowercased |-> [b \in Lowercased |-> levenshtein(a, b)]]

\* strsim::normalized_levenshtein(a, b) >= threshold: 1.0 for two empty
\* strings, else 1.0 - distance / longer length.  On the strings here the
\* f64 comparison and the exact one agree.
similar(a, b, threshold) ==
    LET longer == IF Len(a) >= Len(b) THEN Len(a) ELSE Len(b)
    IN  IF longer = 0 THEN 100 >= threshold
        ELSE 100 * (longer - distance[a][b]) >= threshold * longer

\* the entries of the Vec with the fields the match reads
WishedEntry == [name : MatchNames, series : {None} \cup {Some(x) : x \in StoredSeries},
                verified : {FALSE}, priority : {0}]

\* the Vecs of at most n entries that add_character can build
RECURSIVE WishlistsUpTo(_)
WishlistsUpTo(n) ==
    IF n = 0 THEN {<<>>}
    ELSE LET shorter == WishlistsUpTo(n - 1)
         IN  shorter \cup
             { Append(cs, c) : cs \in {l \in shorter : Len(l) = n - 1},
                               c \in WishedEntry }

unique_names(cs) ==
    \A i \in 1..Len(cs) : \A j \in 1..Len(cs) :
        i # j => lowercase(cs[i].name) # lowercase(cs[j].name)

matches_series(wished, series, fuzzy) ==
    IF wished.series # None /\ series # None
      THEN LET ws_lower == lowercase(wished.series[1])
               rs_lower == lowercase(series[1])
           IN  IF ws_lower = rs_lower THEN TRUE
               ELSE IF fuzzy THEN similar(ws_lower, rs_lower, fuzzy_threshold)
               ELSE FALSE
      ELSE TRUE

matches_character(wished, name, series, fuzzy) ==
    LET name_lower == lowercase(name)
        wished_name_lower == lowercase(wished.name)
    IN  IF wished_name_lower = name_lower THEN matches_series(wished, series, fuzzy)
        ELSE IF fuzzy /\ similar(wished_name_lower, name_lower, fuzzy_threshold)
               THEN matches_series(wished, series, fuzzy)
        ELSE FALSE

RECURSIVE is_wished_last_match(_, _, _, _)
is_wished_last_match(cs, name, series, fuzzy) ==
    IF cs = <<>> THEN None
    ELSE IF matches_character(cs[Len(cs)], name, series, fuzzy) THEN Some(cs[Len(cs)])
    ELSE is_wished_last_match(SubSeq(cs, 1, Len(cs) - 1), name, series, fuzzy)

\* for character in &data.characters { if matches { return Some(..) } } None
RECURSIVE is_wished(_, _, _, _)
is_wished(cs, name, series, fuzzy) ==
    IF cs = <<>> THEN None
    ELSE IF matches_character(Head(cs), name, series, fuzzy) THEN Some(Head(cs))
    ELSE is_wished(Tail(cs), name, series, fuzzy)

\* no is_wished call made yet
MatchInit ==
    /\ fuzzy_enabled \in BOOLEAN
    /\ q_name = <<>>
    /\ q_series = None
    /\ q_result = None

\* Config::default: fuzzy_match on
DefaultMatch == fuzzy_enabled = TRUE

\* handler.rs should_claim_character: self.wishlist.is_wished(name, series)
IsWished ==
    \E name \in MatchNames, series \in {None} \cup {Some(x) : x \in MatchSeries} :
        /\ q_name' = name
        /\ q_series' = series
        /\ q_result' = is_wished(characters, name, series, fuzzy_enabled)
        /\ UNCHANGED fuzzy_enabled
        /\ UNCHANGED <<engine_vars, lookup_vars, shutdown, daily_vars, consumer_vars,
                       auto_react_kakera, store_vars, startup_vars, cooldown_vars, parse_vars, roll_count_vars, last_vars>>

(***************************************************************************)
(* Cooldown map of the CommandExecutor (commands.rs), as its two functions *)
(* read and write it for any configured command.                           *)
(***************************************************************************)
\* no call made yet
NotAsked == <<"">>
NoCooldownOp == [kind |-> "none", cmd |-> ""]

CooldownInit ==
    /\ cd_available = NotAsked
    /\ cd_op = NoCooldownOp

\* update_roll_cooldown(command)
UpdateRollCooldown ==
    \E cmd \in {roll_commands[i] : i \in 1..Len(roll_commands)} :
        /\ roll_cooldowns' = update_roll_cooldown(roll_cooldowns, cmd)
        /\ cd_op' = [kind |-> "update", cmd |-> cmd]
        /\ UNCHANGED cd_available
        /\ UNCHANGED <<config_vars, sched_vars, handler_vars, paused, claim_available,
                       rolls_remaining, budget_seen, cooldown_seen>>
        /\ UNCHANGED <<lookup_vars, shutdown, daily_vars, consumer_vars, auto_react_kakera,
                       store_vars, startup_vars, match_vars, parse_vars, roll_count_vars, last_vars>>

\* get_all_available_roll_commands()
GetAllAvailableRollCommands ==
    /\ cd_available' = get_all_available_roll_commands(roll_cooldowns)
    /\ cd_op' = [kind |-> "get", cmd |-> ""]
    /\ UNCHANGED roll_cooldowns
    /\ UNCHANGED <<config_vars, sched_vars, handler_vars, paused, claim_available,
                   rolls_remaining, budget_seen, cooldown_seen>>
    /\ UNCHANGED <<lookup_vars, shutdown, daily_vars, consumer_vars, auto_react_kakera,
                   store_vars, startup_vars, match_vars, parse_vars, roll_count_vars, last_vars>>

(***************************************************************************)
(* Classification of a message (parser.rs MudaeParser::parse).  The text   *)
(* fields are sequences of characters.                                     *)
(***************************************************************************)
\* str::contains
contains(str, pat) ==
    \E i \in 1..(Len(str) - Len(pat) + 1) : SubSeq(str, i, i + Len(pat) - 1) = pat

\* description.lines().first(): the characters before the first line end
RECURSIVE first_line(_)
first_line(str) ==
    IF str = <<>> \/ Head(str) = "\n" THEN <<>>
    ELSE <<Head(str)>> \o first_line(Tail(str))

\* str::trim
RECURSIVE trim(_)
trim(str) ==
    IF str = <<>> THEN <<>>
    ELSE IF Head(str) = " " THEN trim(Tail(str))
    ELSE IF str[Len(str)] = " " THEN trim(SubSeq(str, 1, Len(str) - 1))
    ELSE str

extract_series(description) == trim(first_line(description))

BelongsTo_ == <<"B", "e", "l", "o", "n", "g", "s", " ", "t", "o">>
RollsLeft_ == <<"r", "o", "l", "l", "s", " ", "l", "e", "f", "t">>
Roll_ == <<"r", "o", "l", "l">>
Reset_ == <<"r", "e", "s", "e", "t">>
RouletteIsLimited_ == <<"r", "o", "u", "l", "e", "t", "t", "e", " ", "i", "s", " ", "l", "i", "m", "i", "t", "e", "d">>
Claim_ == <<"c", "l", "a", "i", "m">>
Available_ == <<"a", "v", "a", "i", "l", "a", "b", "l", "e">>

\* the descriptions of the embeds: a free character, an owned one, an
\* empty text
Descriptions ==
    { <<" ", "R", "e", ":", "Z", "e", "r", "o", " ", "\n", "#", "1">>,
      <<"R", "e", ":", "Z", "e", "r", "o", "\n", "B", "e", "l", "o", "n", "g", "s", " ", "t", "o", " ", "A">>,
      <<>> }

\* the texts of the messages
Contents ==
    { <<>>,
      <<"3", " ", "r", "o", "l", "l", "s", " ", "l", "e", "f", "t">>,
      <<"c", "l", "a", "i", "m", " ", "a", "v", "a", "i", "l", "a", "b", "l", "e">> }

\* client.rs Embed, with the fields the classification reads; has_fields
\* is fields holding at least one field
Embeds ==
    [title : {None, Some(Ram_)}, author : {None, Some(Rem_)},
     description : {None} \cup {Some(x) : x \in Descriptions}, has_fields : BOOLEAN]

\* client.rs DiscordMessage: the first embed, whether a button has a
\* kakera emoji, the text
DiscordMessages ==
    [embed : {None} \cup {Some(e) : e \in Embeds}, kakera_button : BOOLEAN, content : Contents]

\* the variants of MudaeMessage with the fields the classification of a
\* character fills
Classified(type, name, series, is_claimed) ==
    [type |-> type, name |-> name, series |-> series, is_claimed |-> is_claimed]

is_character_roll(embed) == embed.author # None /\ embed.description # None

parse_character_roll(embed) ==
    LET description == IF embed.description # None THEN embed.description[1] ELSE <<>>
    IN  Classified("CharacterRoll",
                   IF embed.author # None THEN embed.author[1] ELSE <<>>,
                   extract_series(description),
                   contains(description, BelongsTo_))

is_kakera_loot(message) == message.kakera_button

is_character_info(embed) ==
    /\ embed.title # None \/ embed.author # None
    /\ embed.has_fields \/ embed.description # None

parse_character_info(embed) ==
    Classified("CharacterInfo",
               IF embed.author # None THEN embed.author[1]
               ELSE IF embed.title # None THEN embed.title[1] ELSE <<>>,
               IF embed.description # None THEN extract_series(embed.description[1]) ELSE <<>>,
               FALSE)

is_rolls_info(content) ==
    \/ contains(content, RollsLeft_)
    \/ contains(content, Roll_) /\ contains(content, Reset_)
    \/ contains(content, RouletteIsLimited_)

is_claim_info(content) ==
    contains(content, Claim_) /\ (contains(content, Available_) \/ contains(content, Reset_))

\* the tests on the text, after the tests on the first embed
parse_content(content) ==
    IF is_rolls_info(content) THEN Classified("RollsRemaining", <<>>, <<>>, FALSE)
    ELSE IF is_claim_info(content) THEN Classified("ClaimAvailable", <<>>, <<>>, FALSE)
    ELSE Classified("Unknown", <<>>, <<>>, FALSE)

parse(message) ==
    IF message.embed # None
      THEN LET embed == message.embed[1]
           IN  IF is_character_info(embed) THEN parse_character_info(embed)
               ELSE IF is_character_roll(embed) THEN parse_character_roll(embed)
               ELSE IF is_kakera_loot(message) THEN Classified("KakeraLoot", <<>>, <<>>, FALSE)
               ELSE parse_content(message.content)
      ELSE parse_content(message.content)

\* no message parsed yet
ParseInit ==
    /\ p_message = None
    /\ p_result = None

\* handle_mudae_message: let parsed = MudaeParser::parse(message, ..)
Parse ==
    \E message \in DiscordMessages :
        /\ p_message' = Some(message)
        /\ p_result' = Some(parse(message))
        /\ UNCHANGED <<engine_vars, lookup_vars, shutdown, daily_vars, consumer_vars,
                       auto_react_kakera, store_vars, startup_vars, match_vars, cooldown_vars, roll_count_vars, last_vars>>

(***************************************************************************)
(* The rolls of the scheduler and the messages that answer them: every     *)
(* roll command that was sent is answered by one CharacterRoll message,    *)
(* and no other CharacterRoll and no RollsRemaining message arrives.       *)
(***************************************************************************)
\* most roll commands sent
MaxRolls == 5

RollCountInit ==
    /\ rolls_sent = 0
    /\ offers_pending = 0

\* RollScheduler::run, send_message: a command that was sent will be
\* answered
SchedulerSendCounted ==
    /\ rolls_sent < MaxRolls
    /\ SendRollCommand
    /\ rolls_sent' = IF s_pc' = "mark" THEN rolls_sent + 1 ELSE rolls_sent
    /\ offers_pending' = IF s_pc' = "mark" THEN offers_pending + 1 ELSE offers_pending
    /\ UNCHANGED <<lookup_vars, shutdown, daily_vars, consumer_vars, auto_react_kakera,
                   store_vars, startup_vars, match_vars, cooldown_vars, parse_vars, last_vars>>

\* the CharacterRoll message of a roll command of the scheduler
ReceiveOwnCharacterRoll ==
    /\ offers_pending > 0
    /\ TakeCharacterRoll
    /\ offers_pending' = offers_pending - 1
    /\ UNCHANGED rolls_sent
    /\ UNCHANGED <<lookup_vars, shutdown, daily_vars, consumer_vars, auto_react_kakera,
                   store_vars, startup_vars, match_vars, cooldown_vars, parse_vars, last_vars>>

(***************************************************************************)
(* The bounded logs (stats.rs): VecDeques that drop their front entry when *)
(* they are full.  An entry is the number of the call that added it.       *)
(***************************************************************************)
\* Stats::default max_log_entries
max_log_entries == 100
\* the literal 50 of add_roll
max_roll_history == 50
\* Stats::default max_channel_activity
max_channel_activity == 50

\* most calls of log_event, add_roll and add_channel_activity
MaxLogCalls == 101
MaxRollCalls == 51
MaxFeedCalls == 51

log_event_unbounded(log, event) == Append(log, event)

\* log_event: pop_front when len >= max_log_entries, then push_back
log_event(log, event) ==
    Append(IF Len(log) >= max_log_entries THEN Tail(log) ELSE log, event)

\* add_roll: pop_front when len >= 50, then push_back
add_roll(history, entry) ==
    Append(IF Len(history) >= max_roll_history THEN Tail(history) ELSE history, entry)

\* add_channel_activity: pop_front when len >= max_channel_activity, then
\* push_back
add_channel_activity(feed, activity) ==
    Append(IF Len(feed) >= max_channel_activity THEN Tail(feed) ELSE feed, activity)

\* Stats::default: three empty VecDeques
LogInit ==
    /\ activity_log = <<>>
    /\ roll_history = <<>>
    /\ channel_activity = <<>>
    /\ n_log = 0
    /\ n_roll = 0
    /\ n_feed = 0

\* stats.log_event(..)
LogEvent ==
    /\ n_log < MaxLogCalls
    /\ n_log' = n_log + 1
    /\ activity_log' = log_event(activity_log, n_log + 1)
    /\ UNCHANGED <<roll_history, channel_activity, n_roll, n_feed>>
    /\ UNCHANGED <<engine_vars, lookup_vars, shutdown, daily_vars, consumer_vars, auto_react_kakera,
                   store_vars, startup_vars, match_vars, cooldown_vars, parse_vars, roll_count_vars,
                   inbound_vars>>

\* stats.add_roll(..)
AddRoll ==
    /\ n_roll < MaxRollCalls
    /\ n_roll' = n_roll + 1
    /\ roll_history' = add_roll(roll_history, n_roll + 1)
    /\ UNCHANGED <<activity_log, channel_activity, n_log, n_feed>>
    /\ UNCHANGED <<engine_vars, lookup_vars, shutdown, daily_vars, consumer_vars, auto_react_kakera,
                   store_vars, startup_vars, match_vars, cooldown_vars, parse_vars, roll_count_vars,
                   inbound_vars>>

\* the queue and the call counter after stats.add_channel_activity(..)
PushChannelActivity ==
    /\ n_feed' = n_feed + 1
    /\ channel_activity' = add_channel_activity(channel_activity, n_feed + 1)
    /\ UNCHANGED <<activity_log, roll_history, n_log, n_roll>>

\* stats.add_channel_activity(..)
AddChannelActivity ==
    /\ n_feed < MaxFeedCalls
    /\ PushChannelActivity
    /\ UNCHANGED <<engine_vars, lookup_vars, shutdown, daily_vars, consumer_vars, auto_react_kakera,
                   store_vars, startup_vars, match_vars, cooldown_vars, parse_vars, roll_count_vars,
                   inbound_vars>>

(***************************************************************************)
(* Inbound messages: MessageHandler::handle_message and its two tests      *)
(***************************************************************************)
\* most messages handled
MaxMessages == 2

\* Config::mudae_bot_id
mudae_bot_id == "432610292342587392"
\* MessageHandler.user_id, the id of the account the program runs under
user_id == "100"
\* another member of the channel
OtherUserId == "200"

Mudae_ == <<"M", "u", "d", "a", "e">>
mudae_ == <<"m", "u", "d", "a", "e">>
ReMudae_ == <<"R", "e", "M", "u", "d", "a", "e">>

\* the channels a message comes from: the first configured one and one
\* that is not configured
MessageChannels == {channels[1], 3}

\* the accounts that write: the game bot, the account the program runs
\* under, another member, and a member whose name contains "Mudae"
Authors ==
    { [id |-> mudae_bot_id, username |-> Mudae_],
      [id |-> user_id, username |-> Ram_],
      [id |-> OtherUserId, username |-> Rem_],
      [id |-> OtherUserId, username |-> ReMudae_] }

\* client.rs DiscordMessage with the fields handle_message reads; a member
\* may send an empty text (an attachment only)
InboundMessages ==
    { m \in [channel_id : MessageChannels, author_id : {a.id : a \in Authors},
             username : {a.username : a \in Authors}, has_content : BOOLEAN] :
        /\ \E a \in Authors : a.id = m.author_id /\ a.username = m.username
        /\ m.author_id = mudae_bot_id => m.has_content }

NoInbound == [channel_id |-> 0, author_id |-> "", username |-> <<>>, has_content |-> FALSE]

\* the lists MessageHandler::new can be given
TargetLists == {<<>>, <<channels[1]>>, channels}

InSeq(x, seq) == \E i \in 1..Len(seq) : seq[i] = x

is_target_channel_listed_only(targets, channel_id) == InSeq(channel_id, targets)

\* is_target_channel: every channel when the list is empty, else the
\* channels of the list
is_target_channel(targets, channel_id) ==
    IF targets = <<>> THEN TRUE ELSE InSeq(channel_id, targets)

\* is_mudae_message: the id of the game bot, or a username that contains
\* "mudae" in lower case
is_mudae_message(message) ==
    \/ message.author_id = mudae_bot_id
    \/ contains(lowercase(message.username), mudae_)

\* handle_message: the early return, then one of the two handlers
handle_message(targets, message) ==
    IF ~is_target_channel(targets, message.channel_id) THEN "ignored"
    ELSE IF is_mudae_message(message) THEN "mudae"
    ELSE "user"

\* handle_user_message: nothing for an empty text and for the account's own
\* message, else one entry of the channel activity
user_message_logged(message) ==
    message.has_content /\ message.author_id # user_id

InboundInit ==
    /\ target_channels \in TargetLists
    /\ m_in = NoInbound
    /\ m_count = 0
    /\ m_route = "none"

\* main passes the configured channels to MessageHandler::new
DefaultInbound == target_channels = channels

\* Config::default: auto_daily on, daily_time "00:00"
DefaultDaily == auto_daily /\ daily_time = 0 /\ now_slot = 0

\* Config::default: auto_react_kakera on
DefaultLoot == auto_react_kakera = TRUE

Init ==
    /\ EngineInit
    /\ LookupInit
    /\ DailyInit /\ DefaultDaily
    /\ ConsumerInit
    /\ DefaultLoot
    /\ StoreInit
    /\ StartupDone
    /\ MatchInit /\ DefaultMatch
    /\ CooldownInit
    /\ ParseInit
    /\ RollCountInit
    /\ InboundInit /\ DefaultInbound
    /\ LogInit
    /\ shutdown = FALSE

\* the daily commands under every daily configuration and start time, the
\* rest as Config::default has it
InitDaily ==
    /\ EngineInit /\ auto_roll /\ wishlist_enabled
    /\ LookupInit
    /\ DailyInit
    /\ ConsumerInit
    /\ DefaultLoot
    /\ StoreInit
    /\ StartupDone
    /\ MatchInit /\ DefaultMatch
    /\ CooldownInit
    /\ ParseInit
    /\ RollCountInit
    /\ InboundInit /\ DefaultInbound
    /\ LogInit
    /\ shutdown = FALSE

SpecDaily == InitDaily /\ [][NextDaily]_vars

\* the scheduler task is polled whenever it can run (tokio runs every ready
\* task) and the clock moves on: each step of the daily loop and the tick
\* are taken when they stay possible
DailyFairness ==
    /\ WF_vars(DailyCheck)
    /\ WF_vars(DailySend)
    /\ WF_vars(DailySendDk)
    /\ WF_vars(DailyTick)

SpecDailyLive == InitDaily /\ [][NextDaily]_vars /\ DailyFairness

InitConsumer == Init /\ auto_roll /\ wishlist_enabled

InitStore == Init /\ auto_roll /\ wishlist_enabled

SpecStore == InitStore /\ [][NextStore]_vars

SpecConsumer == InitConsumer /\ [][NextConsumer]_vars

NextStartup == LoadWishlist

InitStartup ==
    /\ EngineInit /\ auto_roll
    /\ LookupInit
    /\ DailyInit /\ DefaultDaily
    /\ ConsumerInit
    /\ DefaultLoot
    /\ StartupInit
    /\ MatchInit /\ DefaultMatch
    /\ CooldownInit
    /\ ParseInit
    /\ RollCountInit
    /\ InboundInit /\ DefaultInbound
    /\ LogInit
    /\ shutdown = FALSE

SpecStartup == InitStartup /\ [][NextStartup]_vars

NextMatch == IsWished

\* the wishlist as a load or a run of add_character calls left it, under
\* both settings of fuzzy_match
InitMatch ==
    /\ EngineInit /\ auto_roll /\ wishlist_enabled
    /\ LookupInit
    /\ DailyInit /\ DefaultDaily
    /\ ConsumerInit
    /\ DefaultLoot
    /\ StartupDone
    /\ MatchInit
    /\ CooldownInit
    /\ ParseInit
    /\ RollCountInit
    /\ InboundInit /\ DefaultInbound
    /\ LogInit
    /\ characters \in {cs \in WishlistsUpTo(MaxEntries) : unique_names(cs)}
    /\ disk = characters
    /\ mem_version = 0
    /\ disk_version = 0
    /\ w_pc = [t \in Tasks |-> "idle"]
    /\ w_op = NoOp
    /\ w_count = 0
    /\ w_result = [t \in Tasks |-> "none"]
    /\ w_version = [t \in Tasks |-> 0]
    /\ shutdown = FALSE

SpecMatch == InitMatch /\ [][NextMatch]_vars

NextCooldown ==
    \/ UpdateRollCooldown
    \/ GetAllAvailableRollCommands
    \/ EngineTick

InitCooldown == Init /\ auto_roll /\ wishlist_enabled

SpecCooldown == InitCooldown /\ [][NextCooldown]_vars

NextParse == Parse

InitParse == Init /\ auto_roll /\ wishlist_enabled

SpecParse == InitParse /\ [][NextParse]_vars

\* the scheduler, never paused, and the handler with no message but the
\* answers to the scheduler's rolls
NextRolls ==
    \/ SchedulerNoRolls
    \/ SchedulerBegin
    \/ SchedulerPick
    \/ SchedulerSendCounted
    \/ SchedulerMark
    \/ EngineTick
    \/ ReceiveOwnCharacterRoll
    \/ DecrementRolls
    \/ DecideClaim
    \/ ClickClaimButton
    \/ ReactClaim

InitRolls == Init /\ auto_roll /\ wishlist_enabled

SpecRolls == InitRolls /\ [][NextRolls]_vars

\* ---- dashboard (tui.rs)
\* handle_search_input, Enter: the request goes to the first channel
SubmitSearch ==
    /\ ~searching
    /\ next_req <= MaxRequests
    /\ Len(search_rx) < SearchChannelCapacity
    /\ searching' = TRUE
    /\ search_rx' = Append(search_rx, [channel_id |-> channels[1], req |-> next_req])
    /\ tui_pending' = next_req
    /\ next_req' = next_req + 1
    /\ UNCHANGED <<pending_search, response, timer, l_req, l_event, waiting, registered_at>>
    /\ UNCHANGED <<engine_rest, h_pc>>

\* handle_search_input, Esc while searching: the receiver is dropped
CancelSearch ==
    /\ searching
    /\ searching' = FALSE
    /\ tui_pending' = 0
    /\ UNCHANGED <<pending_search, response, timer, search_rx, next_req, l_req,
                   l_event, waiting, registered_at>>
    /\ UNCHANGED <<engine_rest, h_pc>>

\* check_pending_search: try_recv yields a value or Closed
CheckPendingSearch ==
    /\ tui_pending # 0
    /\ response[tui_pending].kind # "open"
    /\ searching' = FALSE
    /\ tui_pending' = 0
    /\ UNCHANGED <<pending_search, response, timer, search_rx, next_req, l_req,
                   l_event, waiting, registered_at>>
    /\ UNCHANGED <<engine_rest, h_pc>>

\* ---- handle_search_request
\* the slot is overwritten with the new request
ReceiveSearchRequest ==
    /\ h_pc = "idle"
    /\ search_rx # <<>>
    /\ pending_search' = [channel |-> Head(search_rx).channel_id, req |-> Head(search_rx).req]
    /\ response' = drop_pending(response, pending_search)
    /\ search_rx' = Tail(search_rx)
    /\ l_req' = Head(search_rx).req
    /\ h_pc' = "search_send"
    /\ registered_at' = [registered_at EXCEPT ![Head(search_rx).req] = l_event.index]
    /\ UNCHANGED <<timer, next_req, searching, tui_pending, l_event, waiting>>
    /\ UNCHANGED engine_rest

pending_after_send_kept(p, ok) == p

\* the slot after send_message: as it was when the command was sent, taken
\* (left None) when the send failed
pending_after_send(p, ok) == IF ok THEN p ELSE NoPending

\* send_message("$im query"); on failure the slot is taken and answered
\* None; then the timeout task is spawned
SendSearchCommand ==
    /\ h_pc = "search_send"
    /\ \E ok \in BOOLEAN :
         /\ response' = IF ok THEN response
                        ELSE send_response(response, pending_search, NoneSent)
         /\ pending_search' = pending_after_send(pending_search, ok)
         /\ waiting' = [waiting EXCEPT ![l_req] = ok]
    /\ timer' = [timer EXCEPT ![l_req] = LookupTimeout]
    /\ l_req' = 0
    /\ h_pc' = "idle"
    /\ UNCHANGED <<search_rx, next_req, searching, tui_pending, l_event, registered_at>>
    /\ UNCHANGED engine_rest

\* the spawned task after its sleep: whatever is in the slot is taken and
\* answered None
TimeoutTask(r) ==
    /\ timer[r] = 0
    /\ timer' = [timer EXCEPT ![r] = Fired]
    /\ response' = send_response(response, pending_search, NoneSent)
    /\ pending_search' = NoPending
    /\ waiting' = [waiting EXCEPT ![r] = FALSE]
    /\ UNCHANGED <<search_rx, next_req, searching, tui_pending, l_req, l_event, registered_at>>
    /\ UNCHANGED <<engine_rest, h_pc>>

FireTimeout == \E r \in Requests : TimeoutTask(r)

\* one second passes for every sleeping timeout task
LookupTick ==
    /\ \E r \in Requests : timer[r] > 0
    /\ timer' = [r \in Requests |-> IF timer[r] > 0 THEN timer[r] - 1 ELSE timer[r]]
    /\ UNCHANGED <<pending_search, response, search_rx, next_req, searching,
                   tui_pending, l_req, l_event, waiting, registered_at>>
    /\ UNCHANGED <<engine_rest, h_pc>>

\* ---- result events
channel_matches_any(message_channel, expected_channel) == TRUE

\* if message.channel_id == expected_channel
channel_matches(message_channel, expected_channel) == message_channel = expected_channel

resolved_request_or_next(p, ch) ==
    IF p.req # 0
      THEN IF ch = p.channel THEN p.req ELSE 0
      ELSE IF next_req <= MaxRequests THEN next_req ELSE 0

\* the request a result event on channel ch answers: the one in the slot
\* when its channel is ch, else none (0)
resolved_request(p, ch) == IF p.req # 0 /\ channel_matches(ch, p.channel) THEN p.req ELSE 0

TakeResultEvent(type, ch, info, has_author) ==
    LET r == resolved_request(pending_search, ch)
        index == l_event.index + 1
        value == SomeResult(info.name, info.series, index)
    IN  /\ h_pc = "idle"
        /\ l_event.index < MaxEvents
        /\ l_event' = [type |-> type, channel |-> ch, name |-> info.name,
                       series |-> info.series, has_author |-> has_author, index |-> index]
        /\ IF r # 0 /\ has_author
             THEN /\ response' = [response EXCEPT ![r] = value]
                  /\ pending_search' = NoPending
             ELSE UNCHANGED <<pending_search, response>>
        /\ waiting' = [q \in Requests |-> waiting[q] /\ ~(has_author /\ ch = channels[1])]
        /\ UNCHANGED <<timer, search_rx, next_req, searching, tui_pending, l_req, registered_at>>

HandleResultEvent(type, ch, info, has_author) ==
    TakeResultEvent(type, ch, info, has_author) /\ UNCHANGED <<engine_rest, h_pc>>

\* CharacterInfo arm: take the slot, answer Some(result) when the channel
\* matches, else put the request back
ReceiveCharacterInfo ==
    \E ch \in {channels[i] : i \in 1..Len(channels)}, info \in SearchResults :
        HandleResultEvent("CharacterInfo", ch, info, TRUE)

\* Unknown arm: a message on the request's channel whose first embed has an
\* author answers the request; any other Unknown message does nothing
ReceiveUnknown ==
    \E ch \in {channels[i] : i \in 1..Len(channels)}, info \in SearchResults,
       has_author \in BOOLEAN :
        HandleResultEvent("Unknown", ch, info, has_author)

(***************************************************************************)
(* handle_message: the channel test, the author test, and the arm of       *)
(* handle_mudae_message the classified message selects.  The logs are      *)
(* written here by the calls handle_message, handle_user_message and the   *)
(* arms themselves make.                                                   *)
(***************************************************************************)
\* the state the message dispatch neither reads nor writes
other_vars == <<shutdown, daily_vars, consumer_vars, auto_react_kakera, store_vars,
                startup_vars, match_vars, cooldown_vars, parse_vars, roll_count_vars>>

\* run_event_loop hands the next message to handle_message, which takes
\* the way `route`
Inbound(route, message) ==
    /\ h_pc = "idle"
    /\ m_count < MaxMessages
    /\ handle_message(target_channels, message) = route
    /\ m_in' = message
    /\ m_count' = m_count + 1
    /\ m_route' = route
    /\ UNCHANGED target_channels

\* the add_channel_activity and log_event calls of one arm
Logged(feed, log) ==
    /\ IF feed
          THEN /\ n_feed' = n_feed + 1
               /\ channel_activity' = add_channel_activity(channel_activity, n_feed + 1)
          ELSE UNCHANGED <<n_feed, channel_activity>>
    /\ IF log
          THEN /\ n_log' = n_log + 1
               /\ activity_log' = log_event(activity_log, n_log + 1)
          ELSE UNCHANGED <<n_log, activity_log>>
    /\ UNCHANGED <<roll_history, n_roll>>

\* if !self.is_target_channel(message.channel_id) { return; }
IgnoreMessage ==
    \E message \in InboundMessages :
        /\ Inbound("ignored", message)
        /\ UNCHANGED <<engine_vars, lookup_vars, other_vars, log_vars>>

\* handle_user_message
HandleUserMessage ==
    \E message \in InboundMessages :
        /\ Inbound("user", message)
        /\ Logged(user_message_logged(message), FALSE)
        /\ UNCHANGED <<engine_vars, lookup_vars, other_vars>>

\* handle_mudae_message, CharacterRoll arm: add_channel_activity(Roll), then
\* handle_character_roll
MudaeCharacterRoll ==
    \E message \in InboundMessages :
        /\ Inbound("mudae", message)
        /\ TakeCharacterRoll
        /\ Logged(TRUE, FALSE)
        /\ UNCHANGED <<lookup_vars, other_vars>>

\* RollsRemaining arm, taken for a text that is_rolls_info accepts:
\* set_rolls_remaining, add_channel_activity, log_event
MudaeRollsRemaining ==
    \E message \in InboundMessages :
        /\ Inbound("mudae", message)
        /\ message.has_content
        /\ TakeRollsRemaining
        /\ Logged(TRUE, TRUE)
        /\ UNCHANGED <<lookup_vars, other_vars>>

\* ClaimAvailable arm, taken for a text that is_claim_info accepts:
\* set_claim_available, add_channel_activity, log_event
MudaeClaimAvailable ==
    \E message \in InboundMessages :
        /\ Inbound("mudae", message)
        /\ message.has_content
        /\ TakeClaimAvailable
        /\ Logged(TRUE, TRUE)
        /\ UNCHANGED <<lookup_vars, other_vars>>

\* KakeraLoot arm: handle_kakera_loot logs "Kakera detected" when
\* auto_react_kakera is on
MudaeKakeraLoot ==
    \E message \in InboundMessages :
        /\ Inbound("mudae", message)
        /\ TakeKakeraLoot
        /\ Logged(FALSE, auto_react_kakera)
        /\ UNCHANGED <<lookup_vars, other_vars>>

\* CharacterInfo arm: the pending search, then add_channel_activity
MudaeCharacterInfo ==
    \E message \in InboundMessages, info \in SearchResults :
        /\ Inbound("mudae", message)
        /\ TakeResultEvent("CharacterInfo", message.channel_id, info, TRUE)
        /\ Logged(TRUE, FALSE)
        /\ UNCHANGED <<auto_roll, wishlist_enabled, paused, claim_available, rolls_remaining,
                       roll_cooldowns, s_pc, s_ch, s_current_rolls, s_sleep, h_pc, h_msg,
                       h_current_rolls, calls, outcome, budget_seen, cooldown_seen>>
        /\ UNCHANGED other_vars

\* the consumer task with the messages of every channel and author, and the
\* dashboard submitting searches
NextInbound ==
    \/ IgnoreMessage
    \/ HandleUserMessage
    \/ MudaeCharacterRoll
    \/ MudaeRollsRemaining
    \/ MudaeClaimAvailable
    \/ MudaeKakeraLoot
    \/ MudaeCharacterInfo
    \/ DecrementRolls
    \/ DecideClaim
    \/ ClickClaimButton
    \/ ReactClaim
    \/ KakeraReact
    \/ SubmitSearch
    \/ ReceiveSearchRequest
    \/ SendSearchCommand

\* a handler built with an empty list, one channel or the configured
\* channels; the rest as Config::default has it
InitInbound ==
    /\ EngineInit /\ auto_roll /\ wishlist_enabled
    /\ LookupInit
    /\ DailyInit /\ DefaultDaily
    /\ ConsumerInit
    /\ DefaultLoot
    /\ StoreInit
    /\ StartupDone
    /\ MatchInit /\ DefaultMatch
    /\ CooldownInit
    /\ ParseInit
    /\ RollCountInit
    /\ InboundInit
    /\ LogInit
    /\ shutdown = FALSE

SpecInbound == InitInbound /\ [][NextInbound]_vars

\* the three logs under any order of calls
NextLogs ==
    \/ LogEvent
    \/ AddRoll
    \/ AddChannelActivity

InitLogs == Init /\ auto_roll /\ wishlist_enabled

SpecLogs == InitLogs /\ [][NextLogs]_vars

(***************************************************************************)
(* The tasks running concurrently                                          *)
(***************************************************************************)
\* the decision engine: the handler task and the pause key of the dashboard
Next ==
    \/ ReceiveCharacterRoll
    \/ DecrementRolls
    \/ DecideClaim
    \/ ClickClaimButton
    \/ ReactClaim
    \/ ReceiveRollsRemaining
    \/ ReceiveClaimAvailable
    \/ TogglePaused

Spec == Init /\ [][Next]_vars

\* the decision engine with the kakera loot, under either setting of
\* auto_react_kakera
NextLoot ==
    \/ Next
    \/ ReceiveKakeraLoot
    \/ KakeraReact

InitLoot ==
    /\ EngineInit
    /\ LookupInit
    /\ DailyInit /\ DefaultDaily
    /\ ConsumerInit
    /\ auto_react_kakera \in BOOLEAN
    /\ StoreInit
    /\ StartupDone
    /\ MatchInit /\ DefaultMatch
    /\ CooldownInit
    /\ ParseInit
    /\ RollCountInit
    /\ InboundInit /\ DefaultInbound
    /\ LogInit
    /\ shutdown = FALSE

SpecLoot == InitLoot /\ [][NextLoot]_vars

\* the budget counter: the scheduler task next to the handler task, the
\* pause key and the clock
NextBudget ==
    \/ SchedulerIdleCycle
    \/ SchedulerNoRolls
    \/ SchedulerBegin
    \/ SchedulerPick
    \/ SchedulerSend
    \/ SchedulerMark
    \/ EngineTick
    \/ TogglePaused
    \/ ReceiveCharacterRoll
    \/ DecrementRolls
    \/ DecideClaim
    \/ ClickClaimButton
    \/ ReactClaim
    \/ ReceiveRollsRemaining

\* the wishlist as Config::default has it; auto_roll either way
InitBudget == Init /\ wishlist_enabled

SpecBudget == InitBudget /\ [][NextBudget]_vars

\* the scheduler task and the handler task while main raises the shutdown
\* signal and goes on to save the statistics and the wishlist
NextShutdown ==
    \/ NextBudget
    \/ RaiseShutdown

SpecShutdown == InitBudget /\ [][NextShutdown]_vars

\* the lookup coordinator: dashboard, handler and timeout tasks
NextLookup ==
    \/ SubmitSearch
    \/ CancelSearch
    \/ CheckPendingSearch
    \/ ReceiveSearchRequest
    \/ SendSearchCommand
    \/ FireTimeout
    \/ LookupTick
    \/ ReceiveCharacterInfo
    \/ ReceiveUnknown

\* the coordinator under the default configuration
InitLookup == Init /\ auto_roll /\ wishlist_enabled

SpecLookup == InitLookup /\ [][NextLookup]_vars

(***************************************************************************)
(* Properties of the decision engine                                       *)
(***************************************************************************)
IsRoll == h_msg.type = "CharacterRoll"

ClickCall(ok) == [call |-> "click_button", ok |-> ok]
ReactCall(ok) == [call |-> "add_reaction", ok |-> ok]

\* the handler leaves the decision of the current roll in this step
DecisionStep == h_pc = "decide" /\ h_pc' # "decide"

\* C1: while and after a CharacterRoll with is_claimed set is handled, no
\* outbound call has been made for it and none is under way, whatever the
\* pause flag, the claim-available flag and the wishlist say.
C1_ClaimedRollMakesNoCall ==
    (IsRoll /\ h_msg.character.is_claimed) =>
        (calls = <<>> /\ h_pc \notin {"claim", "fallback"})

C1_Witness ==
    /\ IsRoll /\ h_msg.character.is_claimed
    /\ h_msg.character.is_wished /\ h_msg.character.in_wishlist
    /\ h_msg.claim_button_id # "None"
    /\ wishlist_enabled /\ ~paused /\ claim_available
    /\ h_pc = "idle" /\ outcome = "skipped"

\* C2: a roll that is not claimed, carries the is_wished flag and a
\* claim_button_id, and is decided while not paused and while claim is
\* available, goes on to the claim; the claim makes exactly one click; a
\* successful click is followed by no reaction and recorded as claimed; a
\* failed click is followed by exactly one heart reaction, and the attempt
\* is recorded as claimed when the reaction succeeded and as failed when it
\* did not.
C2_Case ==
    /\ IsRoll
    /\ ~h_msg.character.is_claimed
    /\ h_msg.character.is_wished
    /\ h_msg.claim_button_id # "None"

C2_ClickThenHeartFallback ==
    /\ [][(DecisionStep /\ C2_Case /\ ~paused /\ claim_available)
            => (h_pc' = "claim" /\ calls' = <<>>)]_vars
    /\ [][(C2_Case /\ h_pc = "claim" /\ h_pc' # "claim")
            => (\E ok \in BOOLEAN : calls' = <<ClickCall(ok)>>)]_vars
    /\ [](C2_Case /\ h_pc = "fallback" => calls = <<ClickCall(FALSE)>>)
    /\ [](C2_Case /\ h_pc = "idle" /\ outcome = "claimed" =>
             \/ calls = <<ClickCall(TRUE)>>
             \/ calls = <<ClickCall(FALSE), ReactCall(TRUE)>>)
    /\ [](C2_Case /\ h_pc = "idle" /\ outcome = "failed" =>
             calls = <<ClickCall(FALSE), ReactCall(FALSE)>>)
    /\ [](C2_Case /\ h_pc = "idle" /\ calls # <<>> => outcome \in {"claimed", "failed"})

C2_Witness ==
    /\ C2_Case /\ h_pc = "idle"
    /\ calls = <<ClickCall(FALSE), ReactCall(TRUE)>>
    /\ outcome = "claimed"

\* C3: with the wishlist enabled, the decision for a roll goes on to a
\* claim attempt exactly when the roll is not claimed, the handler is not
\* paused, claim is available and the roll is wished (is_wished flag, or a
\* wishlist match); a roll that was not sent on to the claim has no outbound
\* call, and a finished attempt has made one.
C3_Preferred == h_msg.character.is_wished \/ h_msg.character.in_wishlist

C3_AttemptIffAllowedAndPreferred ==
    /\ [][(DecisionStep /\ IsRoll /\ wishlist_enabled) =>
            ((h_pc' = "claim") <=>
                (/\ ~h_msg.character.is_claimed
                 /\ ~paused
                 /\ claim_available
                 /\ C3_Preferred))]_vars
    /\ []((IsRoll /\ (h_pc \in {"decrement", "decide", "claim"} \/ outcome = "skipped"))
             => calls = <<>>)
    /\ []((IsRoll /\ outcome \in {"claimed", "failed"}) => calls # <<>>)
    /\ []((IsRoll /\ h_pc = "idle") => outcome # "none")

C3_Witness ==
    /\ IsRoll /\ wishlist_enabled
    /\ ~h_msg.character.is_wished /\ h_msg.character.in_wishlist
    /\ h_pc = "idle" /\ calls # <<>>

\* C4: once a ClaimAvailable event with available = false has been handled
\* and no ClaimAvailable event with available = true after it, no roll
\* handled since is in a claim attempt or has an outbound call.
C4_NoClaimWhileOnCooldown ==
    (IsRoll /\ cooldown_seen = "unavailable") =>
        (calls = <<>> /\ h_pc \notin {"claim", "fallback"})

C4_Witness ==
    /\ IsRoll /\ cooldown_seen = "unavailable"
    /\ ~h_msg.character.is_claimed /\ h_msg.character.is_wished
    /\ ~paused
    /\ h_pc = "idle" /\ outcome = "skipped"

\* C17: a KakeraLoot handled with auto_react_kakera off has no outbound
\* call; with it on, the handling ends with exactly one call: a click and
\* no reaction when the loot carries a button id, one kakera reaction and
\* no click when it carries none; before the call there is none.
IsLoot == h_msg.type = "KakeraLoot"

KakeraReactCall(ok) == [call |-> "add_reaction", emoji |-> "kakera", ok |-> ok]

C17_LootCalls ==
    /\ (IsLoot /\ ~auto_react_kakera) => (calls = <<>> /\ h_pc = "idle")
    /\ (IsLoot /\ h_pc = "kakera") => calls = <<>>
    /\ (IsLoot /\ auto_react_kakera /\ h_pc = "idle" /\ h_msg.claim_button_id # "None")
          => \E ok \in BOOLEAN : calls = <<ClickCall(ok)>>
    /\ (IsLoot /\ auto_react_kakera /\ h_pc = "idle" /\ h_msg.claim_button_id = "None")
          => \E ok \in BOOLEAN : calls = <<KakeraReactCall(ok)>>
    /\ IsLoot => h_pc \in {"idle", "kakera"}

C17_Witness ==
    /\ IsLoot /\ auto_react_kakera /\ paused
    /\ h_pc = "idle" /\ h_msg.claim_button_id # "None"
    /\ calls = <<ClickCall(FALSE)>> /\ outcome = "failed"

\* C32: once a KakeraLoot message has been handled with a collection call
\* that failed, be it the click of the button or the kakera reaction, the
\* failure is what was recorded (no increment_kakera, no Success event) and
\* that one call is the only call made.
C32_FailedCollectionIsFailure ==
    (IsLoot /\ h_pc = "idle" /\ calls # <<>> /\ ~calls[Len(calls)].ok)
        => (outcome = "failed" /\ Len(calls) = 1)

\* C36: the claim-available flag changes only in the step that handles a
\* ClaimAvailable event, to the value the event carries; no step of the
\* handling of a CharacterRoll changes it, a successful claim included; and
\* every unclaimed roll the preference check accepts, decided while the bot
\* is not paused and the flag is true, is attempted.
C36_FlagChangesOnlyOnCooldownStatus ==
    /\ [][claim_available' # claim_available =>
            (/\ h_pc = "idle" /\ h_pc' = "idle"
             /\ h_msg'.type = "ClaimAvailable"
             /\ claim_available' = h_msg'.available)]_vars
    /\ [][(IsRoll /\ h_pc # "idle") => claim_available' = claim_available]_vars
    /\ [][(/\ DecisionStep /\ IsRoll
           /\ ~h_msg.character.is_claimed
           /\ ~paused
           /\ claim_available
           /\ should_claim_character(h_msg.character)) => h_pc' = "claim"]_vars

\* a claim has succeeded, no ClaimAvailable event was ever handled, and the
\* flag is still true
C36_Witness ==
    /\ IsRoll /\ h_pc = "idle"
    /\ outcome = "claimed"
    /\ cooldown_seen = "none"
    /\ claim_available

\* the handler makes an outbound call in this step
OutboundCallStep == Len(calls') = Len(calls) + 1

\* C34: no step of the handler taken while the pause flag is set makes an
\* outbound call: no click and no reaction, for a CharacterRoll or for a
\* KakeraLoot message.
C34_NoCallWhilePaused ==
    [][paused => ~OutboundCallStep]_vars

C9_BudgetStatusIsAuthoritative ==
    budget_seen # Absent => rolls_remaining = budget_seen

\* C10: the scheduler sends a roll command only when the command was never
\* marked used or was marked at least roll_cooldown_seconds ago.
C10_NoSendOnCooldown ==
    [][(s_pc = "send" /\ s_pc' = "mark")
        => command_available(roll_cooldowns, Head(roll_commands))]_vars

\* the scheduler task takes a step
SchedulerStep == sched_vars' # sched_vars /\ ~(s_sleep > 0 /\ s_sleep' = s_sleep - 1 /\ s_pc' = s_pc)

\* C11: a scheduler cycle that finds automation disabled or the pause flag
\* set goes to its sleep of PausedSleep seconds without a send and leaves
\* the cooldown map and the counter as they are; with automation disabled
\* the scheduler never gets to a send.
C11_IdleCycleChangesNothing ==
    /\ [][(/\ s_pc = "top" /\ s_sleep = 0
           /\ (~auto_roll \/ paused)
           /\ SchedulerStep)
            => (/\ s_pc' = "top"
                /\ s_sleep' = PausedSleep
                /\ roll_cooldowns' = roll_cooldowns
                /\ rolls_remaining' = rolls_remaining)]_vars
    /\ [](~auto_roll => s_pc = "top")

C11_Witness ==
    /\ auto_roll /\ paused
    /\ s_pc = "top" /\ s_sleep = PausedSleep
    /\ rolls_remaining > 0 /\ rolls_remaining < InitialRolls
    /\ roll_cooldowns[Head(roll_commands)] # Absent

\* C12: the scheduler sends a roll command only while the counter is
\* positive, and a counter that is zero becomes positive only by a
\* RollsRemaining event that sets it.
C12_NoSendAtZero ==
    /\ [][(s_pc = "send" /\ s_pc' = "mark") => rolls_remaining > 0]_vars
    /\ [][(rolls_remaining = 0 /\ rolls_remaining' > 0)
            => (sched_vars' = sched_vars /\ h_msg' = RollsRemaining(rolls_remaining'))]_vars

\* the handler task takes a step
HandlerStep == handler_vars' # handler_vars

\* C15: with the shutdown signal raised, the scheduler loop at the top of
\* an iteration and the consumer loop about to take its next event stop
\* instead of going on.
C15_LoopsStopOnShutdown ==
    /\ [][(shutdown /\ s_pc = "top" /\ s_sleep = 0 /\ SchedulerStep)
            => s_pc' = "stopped"]_vars
    /\ [][(shutdown /\ h_pc = "idle" /\ HandlerStep)
            => h_pc' = "stopped"]_vars

(***************************************************************************)
(* Properties of the consumer loop                                         *)
(***************************************************************************)
StartedEvents == SelectSeq(started, LAMBDA x : x.kind = "event")

DeliveredEvents == StartedEvents \o event_rx

\* C16: at most one handling is under way at a time, whether of an event
\* or of a search request; a handling starts only when none is under way,
\* whatever stage (decision, jitter, call) the previous one was in; and the
\* events are started in the order they were delivered, none skipped.
C16_OneAtATimeInOrder ==
    /\ [](Cardinality(active) <= 1)
    /\ [][started' # started => active = {}]_vars
    /\ [](\A i \in 1..Len(DeliveredEvents) : \A j \in 1..Len(DeliveredEvents) :
             i < j => DeliveredEvents[i].item < DeliveredEvents[j].item)
    /\ [][Len(StartedEvents') > Len(StartedEvents)
            => (event_rx # <<>> /\ StartedEvents' = Append(StartedEvents, Head(event_rx)))]_vars

C16_Witness ==
    /\ Len(started) = 3
    /\ started[1].kind = "event" /\ started[2].kind = "request" /\ started[3].kind = "event"
    /\ \E h \in active : h.item = started[3].item /\ h.stage = Len(Stages)

(***************************************************************************)
(* Properties of the wishlist store                                        *)
(***************************************************************************)
\* a name equal to name but for case is in the list
Stored(cs, name) == \E i \in 1..Len(cs) : to_lowercase(cs[i].name) = to_lowercase(name)

\* an operation is called in this step
StoreCall == w_count' # w_count

\* C18: an add of a name that is stored, case ignored, returns false to
\* its caller at once, leaves the Vec and the file as they are, and goes on
\* to no save.
C18_DuplicateAddRefused ==
    [][(StoreCall /\ w_op'.kind = "add" /\ Stored(characters, w_op'.name))
        => (/\ w_result'[w_op'.task] = "false"
            /\ w_pc'[w_op'.task] = "idle"
            /\ characters' = characters
            /\ disk' = disk)]_vars

C18_Witness ==
    /\ w_op.kind = "add" /\ w_op.name = "rem"
    /\ w_result[w_op.task] = "false"
    /\ Len(characters) = 1 /\ characters[1].name = "Rem"
    /\ disk = characters

\* C19: no two entries of the Vec have names that are equal but for case.
C19_NamesUnique ==
    \A i \in 1..Len(characters) : \A j \in 1..Len(characters) :
        i # j => to_lowercase(characters[i].name) # to_lowercase(characters[j].name)

SaveReturn(t) == w_pc[t] = "save" /\ w_pc'[t] = "idle"

\* C21: a save() that leaves the file behind the Vec returns an error to the
\* caller of the operation, and a save() that returns an error leaves the
\* Vec as the operation made it: after a failed add the name is in the
\* Vec, after a failed remove it is not.
C21_SaveErrorKeepsMutation ==
    /\ [][\A t \in Tasks :
            (SaveReturn(t) /\ disk' # characters') => w_result'[t] = "err"]_vars
    /\ [][\A t \in Tasks :
            (SaveReturn(t) /\ w_result'[t] = "err")
                => (characters' = characters /\ mem_version' = mem_version)]_vars
    /\ [](\A t \in Tasks :
            (w_op.task = t /\ w_pc[t] = "idle" /\ w_result[t] = "err")
                => /\ w_op.kind = "add" => Stored(characters, w_op.name)
                   /\ w_op.kind = "remove" => ~Stored(characters, w_op.name))

C21_Witness ==
    /\ w_op.kind = "add" /\ w_pc[w_op.task] = "idle" /\ w_result[w_op.task] = "err"
    /\ Stored(characters, w_op.name) /\ ~Stored(disk, w_op.name)

(***************************************************************************)
(* Properties of the wishlist queries                                      *)
(***************************************************************************)
\* the name asked for is the name of entry c but for case, or fuzzy mode is
\* on and the two are similar enough
NameMatches(c, name) ==
    \/ lowercase(c.name) = lowercase(name)
    \/ fuzzy_enabled /\ similar(lowercase(c.name), lowercase(name), fuzzy_threshold)

\* an is_wished call was made
Asked == q_name # <<>>

\* the places of the entries that qualify for the last call
Qualifying ==
    {i \in 1..Len(characters) :
        /\ NameMatches(characters[i], q_name)
        /\ matches_series(characters[i], q_series, fuzzy_enabled)}

\* C23: is_wished returns the qualifying entry that was inserted first,
\* returns None only when no entry qualifies, and leaves the Vec and the
\* file as they are.
C23_FirstQualifyingWins ==
    /\ [](Asked =>
            IF Qualifying = {} THEN q_result = None
            ELSE \E i \in Qualifying :
                    /\ \A j \in Qualifying : i <= j
                    /\ q_result = Some(characters[i]))
    /\ [][match_vars' # match_vars => (characters' = characters /\ disk' = disk)]_vars

C23_Witness ==
    /\ Asked /\ Len(characters) = 2
    /\ Qualifying = {1, 2}
    /\ characters[1].name = Megumi_ /\ characters[2].name = Megumin_ /\ q_name = Megumin_
    /\ q_result = Some(characters[1])

\* the series of entry c is accepted as the description of the store says:
\* none stored, or the stored one is the rolled one but for case, or fuzzy
\* mode is on and the two are similar enough
SeriesAccepted(c, series) ==
    \/ c.series = None
    \/ /\ series # None
       /\ \/ lowercase(c.series[1]) = lowercase(series[1])
          \/ fuzzy_enabled /\ similar(lowercase(c.series[1]), lowercase(series[1]), fuzzy_threshold)

\* C24: when an entry has the name asked for, case ignored, and its series
\* is accepted, is_wished returns an entry of that name and not an entry
\* that is only similar; and a name of three letters is not matched by a
\* name that differs from it in one letter.
C24_ExactBeforeFuzzy ==
    Asked =>
        /\ (\E i \in Qualifying : lowercase(characters[i].name) = lowercase(q_name))
              => (q_result # None /\ lowercase(q_result[1].name) = lowercase(q_name))
        /\ (q_result # None /\ Len(q_name) = 3 /\ Len(q_result[1].name) = 3)
              => lowercase(q_result[1].name) = lowercase(q_name)

\* C25: the entry is_wished returns has its series accepted as the
\* description says, in particular an entry with a series is not returned
\* for a roll without one; and an entry whose name matches and whose
\* series is so accepted makes is_wished return an entry.
C25_SeriesAcceptance ==
    Asked =>
        /\ q_result # None => SeriesAccepted(q_result[1], q_series)
        /\ (\E i \in 1..Len(characters) :
                NameMatches(characters[i], q_name) /\ SeriesAccepted(characters[i], q_series))
              => q_result # None

(***************************************************************************)
(* Properties of the cooldown map                                          *)
(***************************************************************************)
\* place of command c in the configured list
Place(c) == CHOOSE i \in 1..Len(roll_commands) : roll_commands[i] = c

\* get_all_available_roll_commands is called in this step
GetStep == cd_op'.kind = "get" /\ roll_cooldowns' = roll_cooldowns

\* update_roll_cooldown(c) is called in this step
MarkStep(c) ==
    \/ roll_cooldowns'[c] = 0 /\ roll_cooldowns[c] # 0
    \/ cd_op' # cd_op /\ cd_op'.kind = "update" /\ cd_op'.cmd = c

\* C26: before any command is marked, the call returns every configured
\* command; a call returns, in configured order and each once, the commands
\* never marked or marked at least roll_cooldown_seconds ago; a mark of c
\* starts the age of c at zero and leaves the other ages as they are, so c
\* is left out until roll_cooldown_seconds have passed and returned from
\* then on.
C26_AvailableCommands ==
    /\ [][(GetStep /\ \A c \in DOMAIN roll_cooldowns : roll_cooldowns[c] = Absent)
            => cd_available' = roll_commands]_vars
    /\ [][GetStep =>
            /\ \A c \in DOMAIN roll_cooldowns :
                  (\E i \in 1..Len(cd_available') : cd_available'[i] = c)
                    <=> (roll_cooldowns[c] = Absent \/ roll_cooldowns[c] >= roll_cooldown_seconds)
            /\ \A i \in 1..Len(cd_available') : \A j \in 1..Len(cd_available') :
                  i < j => Place(cd_available'[i]) < Place(cd_available'[j])]_vars
    /\ [][\A c \in DOMAIN roll_cooldowns :
            MarkStep(c)
                => (/\ roll_cooldowns'[c] = 0
                    /\ \A o \in DOMAIN roll_cooldowns : o # c => roll_cooldowns'[o] = roll_cooldowns[o])]_vars
    /\ [][\A c \in DOMAIN roll_cooldowns :
            (roll_cooldowns'[c] # roll_cooldowns[c] /\ ~MarkStep(c))
                => (/\ roll_cooldowns[c] # Absent
                    /\ roll_cooldowns[c] < roll_cooldown_seconds
                    /\ roll_cooldowns'[c] = roll_cooldowns[c] + 1)]_vars

C26_Witness ==
    /\ cd_op.kind = "get"
    /\ cd_available = <<roll_commands[2]>>
    /\ roll_cooldowns[roll_commands[1]] = roll_cooldown_seconds - 1
    /\ roll_cooldowns[roll_commands[2]] = roll_cooldown_seconds

(***************************************************************************)
(* Properties of the classification                                        *)
(***************************************************************************)
\* C27: a message whose first embed has an author and a description
\* without "Belongs to" is classified as CharacterRoll, with the author as
\* name and the trimmed first line of the description as series.
C27_AuthorDescriptionIsRoll ==
    (/\ p_message # None
     /\ p_message[1].embed # None
     /\ p_message[1].embed[1].author # None
     /\ p_message[1].embed[1].description # None
     /\ ~contains(p_message[1].embed[1].description[1], BelongsTo_))
        => (/\ p_result[1].type = "CharacterRoll"
            /\ p_result[1].name = p_message[1].embed[1].author[1]
            /\ p_result[1].series = trim(first_line(p_message[1].embed[1].description[1])))

\* the first embed of the message passes neither the CharacterInfo test nor
\* the CharacterRoll test, or there is no embed to test
NeitherInfoNorRoll(message) ==
    \/ message.embed = None
    \/ /\ message.embed # None
       /\ ~is_character_info(message.embed[1])
       /\ ~is_character_roll(message.embed[1])

\* C33: a message that passes neither the CharacterInfo nor the
\* CharacterRoll test and has a button whose emoji name contains "kakera"
\* is classified as KakeraLoot, with or without an embed.
C33_KakeraButtonIsLoot ==
    (/\ p_message # None
     /\ NeitherInfoNorRoll(p_message[1])
     /\ p_message[1].kakera_button)
        => p_result[1].type = "KakeraLoot"

(***************************************************************************)
(* Properties of the startup                                               *)
(***************************************************************************)
\* C22: a load that finds a file that is not the JSON of a WishlistData
\* ends with the startup going on and the Vec empty.
C22_MalformedLoadStartsEmpty ==
    [][(startup = "load" /\ wishlist_enabled /\ file_state = "malformed" /\ startup' # startup)
        => (startup' = "running" /\ characters' = <<>>)]_vars

(***************************************************************************)
(* Properties of the daily commands                                        *)
(***************************************************************************)
DailySentOn(day) == {i \in 1..Len(daily_log) : daily_log[i].cmd = "$daily" /\ daily_log[i].day = day}

\* C13: on every calendar day the $daily command has been sent at most
\* once, over all channels, whether or not the $dk sends succeeded.
C13_DailyOncePerDay ==
    \A day \in 0..MaxDay : Cardinality(DailySentOn(day)) <= 1

\* C14: every daily command was sent at a time of day not earlier than
\* the configured daily time.
C14_NoDailyBeforeTime ==
    \A i \in 1..Len(daily_log) : daily_log[i].slot >= daily_time

\* both commands of the pair were sent on that day
DailyPairSentOn(day) ==
    /\ DailySentOn(day) # {}
    /\ \E i \in 1..Len(daily_log) : daily_log[i].cmd = "$dk" /\ daily_log[i].day = day

\* C31: with daily automation enabled, whenever the clock is on a day after
\* the day the process started and the time of day is at or after the
\* configured daily time, the $daily / $dk pair is eventually sent on that
\* day.
C31_DailyEventuallyOnNewDay ==
    \A day \in 1..MaxDay :
        (auto_daily /\ today = day /\ now_slot >= daily_time) ~> DailyPairSentOn(day)

(***************************************************************************)
(* Properties of the lookup coordinator                                    *)
(***************************************************************************)
\* C5: a request whose command was sent has the answer None once its own
\* timeout task has run without a result event on its channel since the
\* command was sent, and has the answer Some with the name and series of
\* the result event once a result event on its channel has been handled
\* before its own timeout task ran.
C5_ResolvedByResultOrOwnTimeout ==
    /\ [][\A r \in Requests :
            (/\ waiting[r]
             /\ l_event'.index # l_event.index
             /\ l_event'.has_author
             /\ l_event'.channel = channels[1])
               => response'[r] = SomeResult(l_event'.name, l_event'.series, l_event'.index)]_vars
    /\ [][\A r \in Requests :
            (waiting[r] /\ timer[r] = 0 /\ timer'[r] = Fired)
               => response'[r] = NoneSent]_vars

\* C6: at most one request that entered the slot is unanswered, and a
\* request that entered the slot and is no longer in it has been answered
\* with Some or None.
C6_EveryRequestAnswered ==
    /\ Cardinality({r \in Requests : registered_at[r] # NotYet /\ response[r].kind = "open"}) <= 1
    /\ \A r \in Requests :
         (registered_at[r] # NotYet /\ pending_search.req # r)
            => response[r].kind \in {"Some", "None"}

\* C7: a result event handled while the slot is empty answers no request
\* and leaves the slot empty, and a request answered Some was answered by an
\* event handled after the request entered the slot.
C7_StrayResultDiscarded ==
    /\ [][(l_event'.index # l_event.index /\ pending_search = NoPending)
            => (pending_search' = NoPending /\ response' = response)]_vars
    /\ [](\A r \in Requests :
             response[r].kind = "Some" =>
                (registered_at[r] # NotYet /\ response[r].event > registered_at[r]))

C7_Witness ==
    /\ registered_at[1] >= 1
    /\ pending_search = NoPending
    /\ response[1].kind = "None"
    /\ timer[1] = Fired

\* a timeout task takes the slot in this step
TimeoutStep(r) == timer[r] = 0 /\ timer'[r] = Fired

\* C28: a timeout task takes and answers only the request it was spawned
\* for: when the task of request r ends its sleep, the slot is empty or
\* holds r, and a request answered None by a timeout task is the request of
\* that task.
C28_TimeoutOnlyOwnRequest ==
    /\ [][\A r \in Requests : TimeoutStep(r) => pending_search.req \in {0, r}]_vars
    /\ [][\A r \in Requests : \A q \in Requests :
            (TimeoutStep(r) /\ response[q].kind = "open" /\ response'[q] = NoneSent) => q = r]_vars

\* a result event is handled in this step
EventStep == l_event'.index # l_event.index

RollsSettled == s_pc = "top" /\ h_pc = "idle" /\ offers_pending = 0

\* C30: with no RollsRemaining message, once the scheduler has sent k roll
\* commands and their k CharacterRoll messages are handled, the counter is
\* InitialRolls - k, or zero when k is larger.
C30_OneDecrementPerRoll ==
    RollsSettled =>
        rolls_remaining = (IF InitialRolls >= rolls_sent THEN InitialRolls - rolls_sent ELSE 0)

\* the send of the search command of request r fails in this step
SearchSendFailedStep(r) ==
    /\ h_pc = "search_send" /\ h_pc' = "idle"
    /\ l_req = r
    /\ ~waiting'[r]

\* C38: the step in which the send of a search command fails leaves the
\* request answered None and the slot empty, and a request answered None
\* stays answered None whatever result event is handled afterwards.
C38_FailedSearchSendResolvesNone ==
    /\ [][\A r \in Requests :
            SearchSendFailedStep(r) =>
                (response'[r] = NoneSent /\ pending_search' = NoPending)]_vars
    /\ [][\A r \in Requests :
            response[r] = NoneSent => response'[r] = NoneSent]_vars

\* the send for request 1 failed, its timeout task is still asleep, and a
\* result event on its channel was handled afterwards and not delivered
C38_Witness ==
    /\ response[1] = NoneSent
    /\ timer[1] > 0
    /\ registered_at[1] = 0
    /\ l_event.index = 1
    /\ l_event.has_author
    /\ l_event.channel = channels[1]
    /\ pending_search = NoPending

(***************************************************************************)
(* Properties of a failed roll command                                     *)
(***************************************************************************)
\* the send of the roll command fails in this step: the scheduler starts
\* the sleep that follows a failed send
SendFailedStep == s_pc = "send" /\ s_pc' # "send" /\ s_sleep' = SendFailSleep

\* C37: the step in which the send of a roll command fails ends the cycle:
\* the scheduler is back at the top of its loop having marked no cooldown,
\* written no rolls-remaining counter and counted no roll.
C37_FailedSendChangesNothing ==
    [][SendFailedStep =>
         (/\ s_pc' = "top"
          /\ roll_cooldowns' = roll_cooldowns
          /\ rolls_remaining' = rolls_remaining
          /\ rolls_sent' = rolls_sent)]_vars

\* the first cycle failed to send: the loop is on the second channel, asleep,
\* with no cooldown marked, the counter as at startup and no roll counted
C37_Witness ==
    /\ s_pc = "top" /\ s_sleep = SendFailSleep /\ s_ch = 2
    /\ rolls_sent = 0
    /\ rolls_remaining = InitialRolls
    /\ \A c \in DOMAIN roll_cooldowns : roll_cooldowns[c] = Absent

(***************************************************************************)
(* Properties of the message dispatch                                      *)
(***************************************************************************)
\* handle_message is called in this step
DispatchStep == m_count' = m_count + 1

\* a pending search is answered with a result in this step
LookupResolvedStep ==
    \E r \in Requests : response[r].kind # "Some" /\ response'[r].kind = "Some"

\* C35: every step of the handler that makes an outbound call, answers a
\* pending search with a result, or changes the rolls-remaining counter or
\* the claim-available flag is a step of the handling of a message whose
\* author id is the id of the game bot.
C35_OnlyGameBotMessagesAct ==
    [][(\/ OutboundCallStep
        \/ LookupResolvedStep
        \/ rolls_remaining' # rolls_remaining
        \/ claim_available' # claim_available)
          => m_in'.author_id = mudae_bot_id]_vars

\* C39: a message from a channel outside a non-empty target list takes the
\* early return and leaves the counters, the flags, the logs, the pending
\* search and the calls as they were; with an empty target list no message
\* takes the early return.
C39_NonTargetChannelIgnored ==
    /\ [][(DispatchStep /\ target_channels # <<>>
              /\ ~InSeq(m_in'.channel_id, target_channels))
            => (/\ m_route' = "ignored"
                /\ UNCHANGED <<engine_vars, lookup_vars, log_vars, other_vars>>)]_vars
    /\ [][(DispatchStep /\ target_channels = <<>>) => m_route' # "ignored"]_vars

\* a message of the game bot on the channel that is not configured was
\* ignored after an earlier message had been handled
C39_Witness ==
    /\ target_channels = channels
    /\ m_count = 2
    /\ m_route = "ignored"
    /\ m_in.author_id = mudae_bot_id
    /\ m_in.channel_id = 3
    /\ n_feed = 1
    /\ calls = <<>>

(***************************************************************************)
(* Properties of the bounded logs                                          *)
(***************************************************************************)
\* the entries of the last `cap` of `n` calls, oldest first
LastAdded(n, cap) ==
    LET kept == IF n <= cap THEN n ELSE cap
    IN  [i \in 1..kept |-> n - kept + i]

\* C40: after any calls of log_event, add_roll and add_channel_activity the
\* activity log holds at most 100 entries and the roll history and the
\* channel activity at most 50 each, and each holds the entries of its most
\* recent calls in the order of the calls.
C40_LogsKeepNewest ==
    /\ Len(activity_log) <= 100
    /\ Len(roll_history) <= 50
    /\ Len(channel_activity) <= 50
    /\ activity_log = LastAdded(n_log, 100)
    /\ roll_history = LastAdded(n_roll, 50)
    /\ channel_activity = LastAdded(n_feed, 50)

\* each log has been filled and has dropped its oldest entry
C40_Witness ==
    /\ n_log = 101 /\ Len(activity_log) = 100 /\ Head(activity_log) = 2
    /\ n_roll = 51 /\ Len(roll_history) = 50 /\ Head(roll_history) = 2
    /\ n_feed = 51 /\ Len(channel_activity) = 50 /\ Head(channel_activity) = 2

====
